---- MODULE Spec2Model ----
(***************************************************************************)
(* Manifest generation of the pixelSound audio collection: the eight       *)
(* per-library Node scripts that walk audio/<Library>, derive a record     *)
(* (name, format, tags, ...) for every audio file and write manifest.json. *)
(* Strings are TLA+ strings handled character by character with SubSeq,    *)
(* Head, Tail, Len and \o.  Paths below a library root are sequences of    *)
(* entry names.                                                            *)
(***************************************************************************)
EXTENDS Integers, Sequences, FiniteSets, TLC

\* ------------------------------------------------------------------------
\* Bounds of the model
\* ------------------------------------------------------------------------

\* Largest number of directory entries (below the library root) in a tree.
MaxNodes == 6

\* Largest number of runs of a script over one tree.
MaxRuns == 2

\* Longest file stem drawn from StemAlphabet.
MaxStemLen == 3

\* Largest number of Drive folder indexing operations in a session.
MaxIndexOps == 3

\* Largest rotation of a rule table tried as another evaluation order.
MaxShift == 2

\* Most songs saved with saveSong.
MaxSongs == 2

\* Most processSyncQueue and syncToCloud loops in flight at once, and most
\* pending callbacks of onOnline.
MaxPasses == 2

\* Most song files in the Drive folder.
MaxFiles == 1

\* ------------------------------------------------------------------------
\* JavaScript string functions used by the generators
\* ------------------------------------------------------------------------

UpperAlpha == "ABCDEFGHIJKLMNOPQRSTUVWXYZ"
LowerAlpha == "abcdefghijklmnopqrstuvwxyz"
Digits == "0123456789"

CharAt(s, i) == SubSeq(s, i, i)

\* The position of character c in string s, 0 when c does not occur.
IndexOfChar(s, c) ==
  IF \E i \in 1..Len(s) : CharAt(s, i) = c
    THEN CHOOSE i \in 1..Len(s) : CharAt(s, i) = c
    ELSE 0

ToLowerChar(c) ==
  LET i == IndexOfChar(UpperAlpha, c) IN IF i = 0 THEN c ELSE CharAt(LowerAlpha, i)

ToUpperChar(c) ==
  LET i == IndexOfChar(LowerAlpha, c) IN IF i = 0 THEN c ELSE CharAt(UpperAlpha, i)

\* toLowerCase that leaves the string as it is.
ToLowerCaseKeeps(s) == s

RECURSIVE ToLowerCase(_)
\* String.prototype.toLowerCase (ASCII).
ToLowerCase(s) ==
  IF s = "" THEN "" ELSE ToLowerChar(Head(s)) \o ToLowerCase(Tail(s))

\* String.prototype.includes: p occurs in s as a contiguous substring.
Includes(s, p) ==
  \E i \in 1..(Len(s) - Len(p) + 1) : SubSeq(s, i, i + Len(p) - 1) = p

\* The position of the first occurrence of p in s, 0 when there is none.
IndexOf(s, p) ==
  IF Includes(s, p)
    THEN CHOOSE i \in 1..(Len(s) - Len(p) + 1) :
           /\ SubSeq(s, i, i + Len(p) - 1) = p
           /\ \A j \in 1..(i - 1) : SubSeq(s, j, j + Len(p) - 1) # p
    ELSE 0

\* s.replace(p, r) with a string pattern: only the first occurrence.
ReplaceFirst(s, p, r) ==
  LET i == IndexOf(s, p) IN
    IF i = 0 THEN s
    ELSE SubSeq(s, 1, i - 1) \o r \o SubSeq(s, i + Len(p), Len(s))

RECURSIVE ReplaceChars(_, _, _)
\* s.replace(/[set]/g, r): every character of s that occurs in set becomes r.
ReplaceChars(s, set, r) ==
  IF s = "" THEN ""
  ELSE (IF IndexOfChar(set, Head(s)) # 0 THEN r ELSE Head(s))
         \o ReplaceChars(Tail(s), set, r)

\* The regular expression class \w: letter, digit or underscore.
IsWordChar(c) ==
  \/ IndexOfChar(UpperAlpha, c) # 0
  \/ IndexOfChar(LowerAlpha, c) # 0
  \/ IndexOfChar(Digits, c) # 0
  \/ c = "_"

RECURSIVE UpperAtBoundaryFrom(_, _)
UpperAtBoundaryFrom(s, i) ==
  IF i > Len(s) THEN ""
  ELSE LET c == CharAt(s, i)
           atBoundary == IsWordChar(c) /\ (i = 1 \/ ~IsWordChar(CharAt(s, i - 1)))
       IN (IF atBoundary THEN ToUpperChar(c) ELSE c) \o UpperAtBoundaryFrom(s, i + 1)

\* s.replace(/\b\w/g, l => l.toUpperCase()): a word character that follows
\* a non-word character (or starts the string) is uppercased.
UpperAtBoundary(s) == UpperAtBoundaryFrom(s, 1)

\* The position of the last "." of s, 0 when there is none.
LastDot(s) ==
  IF \E i \in 1..Len(s) : CharAt(s, i) = "."
    THEN CHOOSE i \in 1..Len(s) :
           CharAt(s, i) = "." /\ \A j \in (i + 1)..Len(s) : CharAt(s, j) # "."
    ELSE 0

\* path.extname of a file name: from the last "." to the end; empty when
\* there is no "." or the only "." is the first character.
ExtName(file) ==
  LET d == LastDot(file) IN
    IF d <= 1 THEN "" ELSE SubSeq(file, d, Len(file))

\* path.basename(file, ext): the name without the given suffix.
BaseName(file, ext) ==
  IF ext # "" /\ Len(file) > Len(ext)
     /\ SubSeq(file, Len(file) - Len(ext) + 1, Len(file)) = ext
    THEN SubSeq(file, 1, Len(file) - Len(ext))
    ELSE file

\* path.extname(file).toLowerCase().slice(1)
Ext(file) ==
  LET e == ToLowerCase(ExtName(file)) IN
    IF e = "" THEN "" ELSE SubSeq(e, 2, Len(e))

\* The allow-list widened to the Drive integration's extensions.
AllowedExtWithFlac == {"ogg", "wav", "mp3", "flac"}

\* ['ogg', 'wav', 'mp3']
AllowedExt == {"ogg", "wav", "mp3"}

\* Only the first character of the stem uppercased.
DeriveNameFirstOnly(baseName) ==
  LET s == ReplaceChars(baseName, "_-", " ")
  IN IF s = "" THEN "" ELSE ToUpperChar(CharAt(s, 1)) \o SubSeq(s, 2, Len(s))

\* baseName.replace(/[_-]/g, ' ').replace(/\b\w/g, l => l.toUpperCase())
DeriveName(baseName) == UpperAtBoundary(ReplaceChars(baseName, "_-", " "))

\* ------------------------------------------------------------------------
\* Tag rule tables, one per generator.  A rule is
\*   if (<text>.includes(p1) || <text>.includes(p2) ...) tags.push(t1, t2, ...)
\* with scope "name" for the lowercased file stem, "cat" for the lowercased
\* category name, and "subeq" for subcategory.toLowerCase() === p.
\* ------------------------------------------------------------------------

\* Boom: the conditional tag rules of processAudioDirectory, in source order (scripts/generateBoomLibraryManifest.js:50-138).
BoomRules ==
  << [scope |-> "cat", pats |-> <<"cinematic hits">>, tags |-> <<"hit", "impact", "cinematic">>],
     [scope |-> "cat", pats |-> <<"cinematic metal">>, tags |-> <<"metal", "impact", "cinematic">>],
     [scope |-> "cat", pats |-> <<"cinematic trailers">>, tags |-> <<"trailer", "cinematic", "epic">>],
     [scope |-> "cat", pats |-> <<"construction kit">>, tags |-> <<"construction kit", "source", "raw">>],
     [scope |-> "cat", pats |-> <<"designed">>, tags |-> <<"designed", "processed", "ready">>],
     [scope |-> "cat", pats |-> <<"impacts">>, tags |-> <<"impact", "hit", "collision">>],
     [scope |-> "name", pats |-> <<"boom">>, tags |-> <<"boom", "low", "impact">>],
     [scope |-> "name", pats |-> <<"hit">>, tags |-> <<"hit", "impact", "strike">>],
     [scope |-> "name", pats |-> <<"drum">>, tags |-> <<"drum", "percussion", "rhythm">>],
     [scope |-> "name", pats |-> <<"element">>, tags |-> <<"element", "source">>],
     [scope |-> "name", pats |-> <<"fire">>, tags |-> <<"fire", "flame", "heat">>],
     [scope |-> "name", pats |-> <<"metal">>, tags |-> <<"metal", "steel", "iron">>],
     [scope |-> "name", pats |-> <<"crash">>, tags |-> <<"crash", "collision", "impact">>],
     [scope |-> "name", pats |-> <<"chain">>, tags |-> <<"chain", "metal", "rattle">>],
     [scope |-> "name", pats |-> <<"smash">>, tags |-> <<"smash", "destruction", "impact">>],
     [scope |-> "name", pats |-> <<"damper">>, tags |-> <<"damper", "metal", "resonance">>],
     [scope |-> "name", pats |-> <<"gas">>, tags |-> <<"gas", "industrial", "pressure">>],
     [scope |-> "name", pats |-> <<"bottle">>, tags |-> <<"bottle", "container", "metal">>],
     [scope |-> "name", pats |-> <<"wood">>, tags |-> <<"wood", "timber", "organic">>],
     [scope |-> "name", pats |-> <<"table">>, tags |-> <<"table", "furniture", "wood">>],
     [scope |-> "name", pats |-> <<"distorted">>, tags |-> <<"distorted", "processed", "gritty">>],
     [scope |-> "name", pats |-> <<"massive">>, tags |-> <<"massive", "large", "heavy">>],
     [scope |-> "name", pats |-> <<"scifi", "sci-fi">>, tags |-> <<"scifi", "futuristic", "technology">>],
     [scope |-> "name", pats |-> <<"slam">>, tags |-> <<"slam", "impact", "forceful">>],
     [scope |-> "name", pats |-> <<"bell">>, tags |-> <<"bell", "chime", "metal">>],
     [scope |-> "name", pats |-> <<"car">>, tags |-> <<"car", "vehicle", "automotive">>],
     [scope |-> "name", pats |-> <<"hood">>, tags |-> <<"hood", "car", "metal">>],
     [scope |-> "name", pats |-> <<"container">>, tags |-> <<"container", "metal", "industrial">>],
     [scope |-> "name", pats |-> <<"door">>, tags |-> <<"door", "metal", "opening">>],
     [scope |-> "name", pats |-> <<"pole">>, tags |-> <<"pole", "metal", "rod">>],
     [scope |-> "name", pats |-> <<"iron">>, tags |-> <<"iron", "metal", "heavy">>],
     [scope |-> "name", pats |-> <<"hammer">>, tags |-> <<"hammer", "tool", "impact">>],
     [scope |-> "name", pats |-> <<"bicycle">>, tags |-> <<"bicycle", "vehicle", "transport">>],
     [scope |-> "name", pats |-> <<"piano">>, tags |-> <<"piano", "instrument", "keys">>],
     [scope |-> "name", pats |-> <<"sustained">>, tags |-> <<"sustained", "ringing", "resonance">>],
     [scope |-> "name", pats |-> <<"plate">>, tags |-> <<"plate", "metal", "sheet">>],
     [scope |-> "name", pats |-> <<"sheet">>, tags |-> <<"sheet", "metal", "thin">>],
     [scope |-> "name", pats |-> <<"slidedoor">>, tags |-> <<"slide door", "mechanism", "metal">>],
     [scope |-> "name", pats |-> <<"trash">>, tags |-> <<"trash", "garbage", "metal">>],
     [scope |-> "name", pats |-> <<"rattle">>, tags |-> <<"rattle", "shake", "metal">>],
     [scope |-> "name", pats |-> <<"hollow">>, tags |-> <<"hollow", "empty", "resonant">>],
     [scope |-> "name", pats |-> <<"crate">>, tags |-> <<"crate", "box", "container">>],
     [scope |-> "name", pats |-> <<"cavern">>, tags |-> <<"cavern", "cave", "reverb">>],
     [scope |-> "name", pats |-> <<"flame">>, tags |-> <<"flame", "fire", "breath">>],
     [scope |-> "name", pats |-> <<"meteorite">>, tags |-> <<"meteorite", "space", "impact">>],
     [scope |-> "name", pats |-> <<"wobbler">>, tags |-> <<"wobbler", "unstable", "vibration">>],
     [scope |-> "name", pats |-> <<"anvil">>, tags |-> <<"anvil", "metal", "forge">>],
     [scope |-> "name", pats |-> <<"angry">>, tags |-> <<"angry", "aggressive", "intense">>],
     [scope |-> "name", pats |-> <<"aquaphone">>, tags |-> <<"aquaphone", "water", "instrument">>],
     [scope |-> "name", pats |-> <<"harsh">>, tags |-> <<"harsh", "gritty", "aggressive">>],
     [scope |-> "name", pats |-> <<"glass">>, tags |-> <<"glass", "fragile", "break">>],
     [scope |-> "name", pats |-> <<"debris">>, tags |-> <<"debris", "fragments", "scattered">>],
     [scope |-> "name", pats |-> <<"orchestra">>, tags |-> <<"orchestra", "symphonic", "cinematic">>],
     [scope |-> "name", pats |-> <<"grancassa">>, tags |-> <<"grancassa", "drum", "orchestral">>],
     [scope |-> "name", pats |-> <<"synth">>, tags |-> <<"synth", "electronic", "synthesizer">>],
     [scope |-> "name", pats |-> <<"voice">>, tags |-> <<"voice", "vocal", "human">>],
     [scope |-> "name", pats |-> <<"choir">>, tags |-> <<"choir", "vocal", "group">>],
     [scope |-> "name", pats |-> <<"whisper">>, tags |-> <<"whisper", "voice", "soft">>],
     [scope |-> "name", pats |-> <<"rise">>, tags |-> <<"rise", "building", "tension">>],
     [scope |-> "name", pats |-> <<"tutti">>, tags |-> <<"tutti", "orchestra", "full">>],
     [scope |-> "name", pats |-> <<"chaos">>, tags |-> <<"chaos", "disorder", "intense">>],
     [scope |-> "name", pats |-> <<"stinger">>, tags |-> <<"stinger", "hit", "short">>],
     [scope |-> "name", pats |-> <<"fast">>, tags |-> <<"fast", "quick", "rapid">>],
     [scope |-> "name", pats |-> <<"whoosh">>, tags |-> <<"whoosh", "sweep", "movement">>],
     [scope |-> "name", pats |-> <<"torch">>, tags |-> <<"torch", "fire", "flame">>],
     [scope |-> "name", pats |-> <<"flange">>, tags |-> <<"flange", "effect", "processed">>],
     [scope |-> "name", pats |-> <<"speaker">>, tags |-> <<"speaker", "audio", "electronic">>],
     [scope |-> "name", pats |-> <<"creature">>, tags |-> <<"creature", "monster", "beast">>],
     [scope |-> "name", pats |-> <<"big">>, tags |-> <<"big", "large", "massive">>],
     [scope |-> "name", pats |-> <<"war">>, tags |-> <<"war", "battle", "combat">>],
     [scope |-> "name", pats |-> <<"stomp">>, tags |-> <<"stomp", "foot", "impact">>],
     [scope |-> "name", pats |-> <<"silverwind">>, tags |-> <<"silverwind", "ethereal", "sweep">>],
     [scope |-> "name", pats |-> <<"brass">>, tags |-> <<"brass", "instrument", "metal">>],
     [scope |-> "name", pats |-> <<"demon">>, tags |-> <<"demon", "dark", "evil">>],
     [scope |-> "name", pats |-> <<"firesworn">>, tags |-> <<"firesworn", "fire", "magical">>],
     [scope |-> "name", pats |-> <<"arnigator">>, tags |-> <<"arnigator", "creature", "aggressive">>],
     [scope |-> "name", pats |-> <<"soft">>, tags |-> <<"soft", "gentle", "subtle">>],
     [scope |-> "name", pats |-> <<"slightly">>, tags |-> <<"slightly", "subtle", "light">>],
     [scope |-> "name", pats |-> <<"impact">>, tags |-> <<"impact", "hit", "collision">>],
     [scope |-> "name", pats |-> <<"low">>, tags |-> <<"low", "bass", "deep">>],
     [scope |-> "name", pats |-> <<"mid">>, tags |-> <<"mid", "medium", "middle">>],
     [scope |-> "name", pats |-> <<"high">>, tags |-> <<"high", "treble", "bright">>],
     [scope |-> "name", pats |-> <<"loose">>, tags |-> <<"loose", "relaxed", "free">>],
     [scope |-> "name", pats |-> <<"long">>, tags |-> <<"long", "extended", "sustained">>],
     [scope |-> "name", pats |-> <<"large">>, tags |-> <<"large", "big", "massive">>],
     [scope |-> "name", pats |-> <<"medium">>, tags |-> <<"medium", "mid", "average">>],
     [scope |-> "name", pats |-> <<"small">>, tags |-> <<"small", "little", "tiny">>] >>

\* Boom: the fixed library tags pushed for every record.
BoomLibraryTags == <<"boom library", "professional", "cinematic">>

\* Amiga: the conditional tag rules of processAudioDirectory, in source order (scripts/generateAmigaMusicManifest.js:50-155).
AmigaRules ==
  << [scope |-> "name", pats |-> <<"game music", "game">>, tags |-> <<"game", "soundtrack">>],
     [scope |-> "name", pats |-> <<"mod">>, tags |-> <<"mod", "module", "tracker">>],
     [scope |-> "name", pats |-> <<"title", "theme">>, tags |-> <<"title", "theme", "menu">>],
     [scope |-> "name", pats |-> <<"intro">>, tags |-> <<"intro", "opening">>],
     [scope |-> "name", pats |-> <<"main">>, tags |-> <<"main", "theme">>],
     [scope |-> "name", pats |-> <<"boss">>, tags |-> <<"boss", "battle", "combat">>],
     [scope |-> "name", pats |-> <<"level", "stage">>, tags |-> <<"level", "stage", "gameplay">>],
     [scope |-> "name", pats |-> <<"game over">>, tags |-> <<"game over", "fail", "gameplay">>],
     [scope |-> "name", pats |-> <<"complete", "clear">>, tags |-> <<"complete", "success", "victory">>],
     [scope |-> "name", pats |-> <<"ending">>, tags |-> <<"ending", "finale", "victory">>],
     [scope |-> "name", pats |-> <<"intermission">>, tags |-> <<"intermission", "break">>],
     [scope |-> "name", pats |-> <<"loading">>, tags |-> <<"loading", "wait">>],
     [scope |-> "name", pats |-> <<"get ready">>, tags |-> <<"get ready", "start">>],
     [scope |-> "name", pats |-> <<"try again">>, tags |-> <<"try again", "retry", "fail">>],
     [scope |-> "name", pats |-> <<"mission">>, tags |-> <<"mission", "objective">>],
     [scope |-> "name", pats |-> <<"phase">>, tags |-> <<"phase", "level">>],
     [scope |-> "name", pats |-> <<"batman">>, tags |-> <<"batman", "superhero", "action">>],
     [scope |-> "name", pats |-> <<"battletoads">>, tags |-> <<"battletoads", "action", "platformer">>],
     [scope |-> "name", pats |-> <<"blood money">>, tags |-> <<"blood money", "shooter">>],
     [scope |-> "name", pats |-> <<"cannon fodder">>, tags |-> <<"cannon fodder", "strategy", "war">>],
     [scope |-> "name", pats |-> <<"flashback">>, tags |-> <<"flashback", "platformer", "scifi">>],
     [scope |-> "name", pats |-> <<"full contact">>, tags |-> <<"full contact", "fighting">>],
     [scope |-> "name", pats |-> <<"lotus">>, tags |-> <<"lotus", "racing", "driving">>],
     [scope |-> "name", pats |-> <<"pinball">>, tags |-> <<"pinball", "arcade">>],
     [scope |-> "name", pats |-> <<"r-type">>, tags |-> <<"r-type", "shooter", "scifi">>],
     [scope |-> "name", pats |-> <<"shadow of the beast">>, tags |-> <<"shadow of the beast", "platformer", "dark">>],
     [scope |-> "name", pats |-> <<"speedball">>, tags |-> <<"speedball", "sports", "futuristic">>],
     [scope |-> "name", pats |-> <<"dr awesome", "bjørn lynne">>, tags |-> <<"dr awesome", "bjørn lynne">>],
     [scope |-> "name", pats |-> <<"jester">>, tags |-> <<"jester", "demo scene">>],
     [scope |-> "name", pats |-> <<"pirat">>, tags |-> <<"pirat", "demo scene">>],
     [scope |-> "name", pats |-> <<"tdk", "mark knight">>, tags |-> <<"tdk", "mark knight", "demo scene">>],
     [scope |-> "name", pats |-> <<"course", "track">>, tags |-> <<"track", "level">>],
     [scope |-> "name", pats |-> <<"desert">>, tags |-> <<"desert", "environment">>],
     [scope |-> "name", pats |-> <<"forest">>, tags |-> <<"forest", "nature">>],
     [scope |-> "name", pats |-> <<"night">>, tags |-> <<"night", "dark">>],
     [scope |-> "name", pats |-> <<"snow">>, tags |-> <<"snow", "winter">>],
     [scope |-> "name", pats |-> <<"storm">>, tags |-> <<"storm", "weather">>],
     [scope |-> "name", pats |-> <<"fog">>, tags |-> <<"fog", "atmosphere">>],
     [scope |-> "name", pats |-> <<"motorway">>, tags |-> <<"motorway", "road", "driving">>],
     [scope |-> "name", pats |-> <<"cathedral">>, tags |-> <<"cathedral", "gothic", "building">>],
     [scope |-> "name", pats |-> <<"cave", "cavern">>, tags |-> <<"cave", "underground">>],
     [scope |-> "name", pats |-> <<"factory">>, tags |-> <<"factory", "industrial">>],
     [scope |-> "name", pats |-> <<"street">>, tags |-> <<"street", "city", "urban">>],
     [scope |-> "name", pats |-> <<"womb", "inside">>, tags |-> <<"organic", "interior">>],
     [scope |-> "name", pats |-> <<"dream", "island">>, tags |-> <<"dream", "fantasy">>],
     [scope |-> "name", pats |-> <<"arctic", "ice">>, tags |-> <<"arctic", "ice", "cold">>],
     [scope |-> "name", pats |-> <<"volcano", "inferno">>, tags |-> <<"fire", "hot", "danger">>],
     [scope |-> "name", pats |-> <<"surf">>, tags |-> <<"surf", "water", "beach">>],
     [scope |-> "name", pats |-> <<"revolution">>, tags |-> <<"revolution", "action">>],
     [scope |-> "name", pats |-> <<"turbo">>, tags |-> <<"turbo", "fast", "speed">>],
     [scope |-> "name", pats |-> <<"karnath", "lair">>, tags |-> <<"lair", "boss", "danger">>],
     [scope |-> "name", pats |-> <<"clinger", "winger">>, tags |-> <<"action", "platformer">>],
     [scope |-> "name", pats |-> <<"rat race">>, tags |-> <<"rat race", "chase">>],
     [scope |-> "name", pats |-> <<"wookie">>, tags |-> <<"wookie", "hole", "cave">>],
     [scope |-> "name", pats |-> <<"volkmire">>, tags |-> <<"volkmire", "fire", "danger">>],
     [scope |-> "name", pats |-> <<"intruder", "excluder">>, tags |-> <<"action", "platformer">>],
     [scope |-> "name", pats |-> <<"terra tubes">>, tags |-> <<"terra", "tubes", "underground">>],
     [scope |-> "name", pats |-> <<"beat box">>, tags |-> <<"beat box", "hip hop", "urban">>],
     [scope |-> "name", pats |-> <<"ignition">>, tags |-> <<"ignition", "space", "rocket">>],
     [scope |-> "name", pats |-> <<"nightmare">>, tags |-> <<"nightmare", "dark", "horror">>],
     [scope |-> "name", pats |-> <<"steel wheels">>, tags |-> <<"steel wheels", "train", "industrial">>],
     [scope |-> "name", pats |-> <<"belt">>, tags |-> <<"belt", "item">>],
     [scope |-> "name", pats |-> <<"chute">>, tags |-> <<"chute", "slide">>],
     [scope |-> "name", pats |-> <<"conrad">>, tags |-> <<"conrad", "protagonist", "character">>],
     [scope |-> "name", pats |-> <<"memories">>, tags |-> <<"memories", "flashback", "story">>],
     [scope |-> "name", pats |-> <<"delphine">>, tags |-> <<"delphine", "logo", "studio">>],
     [scope |-> "name", pats |-> <<"disintegration">>, tags |-> <<"disintegration", "effect", "scifi">>],
     [scope |-> "name", pats |-> <<"elevator">>, tags |-> <<"elevator", "transport", "mechanical">>],
     [scope |-> "name", pats |-> <<"fanfare">>, tags |-> <<"fanfare", "triumph", "celebration">>],
     [scope |-> "name", pats |-> <<"holocube">>, tags |-> <<"holocube", "scifi", "item">>],
     [scope |-> "name", pats |-> <<"teleport">>, tags |-> <<"teleport", "scifi", "effect">>],
     [scope |-> "name", pats |-> <<"taxi">>, tags |-> <<"taxi", "vehicle", "transport">>],
     [scope |-> "name", pats |-> <<"voyage">>, tags |-> <<"voyage", "journey", "travel">>],
     [scope |-> "name", pats |-> <<"waking">>, tags |-> <<"waking", "awakening", "start">>],
     [scope |-> "name", pats |-> <<"reunion">>, tags |-> <<"reunion", "story", "emotional">>],
     [scope |-> "name", pats |-> <<"acidic", "acid">>, tags |-> <<"acid", "electronic">>],
     [scope |-> "name", pats |-> <<"chip", "chipper">>, tags |-> <<"chip", "chiptune">>],
     [scope |-> "name", pats |-> <<"cyber">>, tags |-> <<"cyber", "electronic", "scifi">>],
     [scope |-> "name", pats |-> <<"molecule">>, tags |-> <<"molecule", "science">>],
     [scope |-> "name", pats |-> <<"wicked">>, tags |-> <<"wicked", "intense">>],
     [scope |-> "name", pats |-> <<"instinct">>, tags |-> <<"instinct", "primal">>],
     [scope |-> "name", pats |-> <<"melon">>, tags |-> <<"melon", "playful">>],
     [scope |-> "name", pats |-> <<"grind">>, tags |-> <<"grind", "industrial">>],
     [scope |-> "name", pats |-> <<"frequency">>, tags |-> <<"frequency", "electronic">>],
     [scope |-> "name", pats |-> <<"space">>, tags |-> <<"space", "cosmic", "scifi">>],
     [scope |-> "name", pats |-> <<"deliria", "delirium">>, tags |-> <<"delirium", "trippy">>],
     [scope |-> "name", pats |-> <<"hightop">>, tags |-> <<"hightop", "energetic">>],
     [scope |-> "name", pats |-> <<"back in town">>, tags |-> <<"back in town", "return">>],
     [scope |-> "name", pats |-> <<"escape">>, tags |-> <<"escape", "action", "chase">>],
     [scope |-> "name", pats |-> <<"suicide">>, tags |-> <<"suicide", "dark", "intense">>],
     [scope |-> "name", pats |-> <<"normal">>, tags |-> <<"normal", "standard">>],
     [scope |-> "name", pats |-> <<"distance">>, tags |-> <<"distance", "separation">>],
     [scope |-> "name", pats |-> <<"orgasmic">>, tags |-> <<"orgasmic", "anthrox", "remix">>],
     [scope |-> "name", pats |-> <<"chubby">>, tags |-> <<"chubby", "playful">>] >>

\* Amiga: the fixed library tags pushed for every record.
AmigaLibraryTags == <<"amiga", "retro", "chiptune", "synth">>

\* Adobe: the conditional tag rules of processAudioDirectory, in source order (scripts/generateAmigaMusicManifest.js:240-320).
AdobeRules ==
  << [scope |-> "name", pats |-> <<"alert", "alarm">>, tags |-> <<"alert", "notification", "warning">>],
     [scope |-> "name", pats |-> <<"beep">>, tags |-> <<"beep", "digital", "ui">>],
     [scope |-> "name", pats |-> <<"cartoon">>, tags |-> <<"cartoon", "animated", "playful">>],
     [scope |-> "name", pats |-> <<"transition">>, tags |-> <<"transition", "effect">>],
     [scope |-> "name", pats |-> <<"weapon">>, tags |-> <<"weapon", "combat">>],
     [scope |-> "name", pats |-> <<"explosion">>, tags |-> <<"explosion", "impact", "combat">>],
     [scope |-> "name", pats |-> <<"laser">>, tags |-> <<"laser", "scifi", "weapon">>],
     [scope |-> "name", pats |-> <<"digital">>, tags |-> <<"digital", "electronic">>],
     [scope |-> "name", pats |-> <<"multimedia">>, tags |-> <<"multimedia", "digital", "ui">>],
     [scope |-> "name", pats |-> <<"flash">>, tags |-> <<"flash", "digital", "web">>],
     [scope |-> "name", pats |-> <<"animation">>, tags |-> <<"animation", "cartoon">>],
     [scope |-> "name", pats |-> <<"toy">>, tags |-> <<"toy", "playful">>],
     [scope |-> "name", pats |-> <<"whistle">>, tags |-> <<"whistle", "sound">>],
     [scope |-> "name", pats |-> <<"horn">>, tags |-> <<"horn", "instrument">>],
     [scope |-> "name", pats |-> <<"balloon">>, tags |-> <<"balloon", "toy">>],
     [scope |-> "name", pats |-> <<"kiss">>, tags |-> <<"kiss", "human", "cartoon">>],
     [scope |-> "name", pats |-> <<"voice">>, tags |-> <<"voice", "human">>],
     [scope |-> "name", pats |-> <<"squeak">>, tags |-> <<"squeak", "toy">>],
     [scope |-> "name", pats |-> <<"drum">>, tags |-> <<"drum", "percussion", "instrument">>],
     [scope |-> "name", pats |-> <<"cymbal">>, tags |-> <<"cymbal", "percussion", "instrument">>],
     [scope |-> "name", pats |-> <<"bell">>, tags |-> <<"bell", "notification", "chime">>],
     [scope |-> "name", pats |-> <<"chime">>, tags |-> <<"chime", "bell", "notification">>],
     [scope |-> "name", pats |-> <<"blast">>, tags |-> <<"blast", "impact", "explosion">>],
     [scope |-> "name", pats |-> <<"crystal">>, tags |-> <<"crystal", "magical", "effect">>],
     [scope |-> "name", pats |-> <<"glow">>, tags |-> <<"glow", "magical", "effect">>],
     [scope |-> "name", pats |-> <<"data">>, tags |-> <<"data", "digital", "computer">>],
     [scope |-> "name", pats |-> <<"transmission">>, tags |-> <<"transmission", "digital", "communication">>],
     [scope |-> "name", pats |-> <<"computer">>, tags |-> <<"computer", "digital", "technology">>],
     [scope |-> "name", pats |-> <<"axe">>, tags |-> <<"axe", "weapon", "melee">>],
     [scope |-> "name", pats |-> <<"sword">>, tags |-> <<"sword", "weapon", "melee">>],
     [scope |-> "name", pats |-> <<"bullet">>, tags |-> <<"bullet", "weapon", "ammo">>],
     [scope |-> "name", pats |-> <<"cannon">>, tags |-> <<"cannon", "weapon", "explosion">>],
     [scope |-> "name", pats |-> <<"gun">>, tags |-> <<"gun", "weapon", "firearm">>],
     [scope |-> "name", pats |-> <<"rifle">>, tags |-> <<"rifle", "weapon", "firearm">>],
     [scope |-> "name", pats |-> <<"shotgun">>, tags |-> <<"shotgun", "weapon", "firearm">>],
     [scope |-> "name", pats |-> <<"machine gun">>, tags |-> <<"machine gun", "weapon", "firearm">>],
     [scope |-> "name", pats |-> <<"knife">>, tags |-> <<"knife", "weapon", "melee">>],
     [scope |-> "name", pats |-> <<"whip">>, tags |-> <<"whip", "weapon">>],
     [scope |-> "name", pats |-> <<"taser">>, tags |-> <<"taser", "weapon", "electric">>],
     [scope |-> "name", pats |-> <<"character">>, tags |-> <<"character", "animator">>],
     [scope |-> "name", pats |-> <<"ambience">>, tags |-> <<"ambience", "background", "environment">>],
     [scope |-> "name", pats |-> <<"footstep">>, tags |-> <<"footstep", "foley", "walk">>],
     [scope |-> "name", pats |-> <<"door">>, tags |-> <<"door", "foley", "transition">>],
     [scope |-> "name", pats |-> <<"fire">>, tags |-> <<"fire", "effect", "nature">>],
     [scope |-> "name", pats |-> <<"fireball">>, tags |-> <<"fireball", "fire", "magic">>],
     [scope |-> "name", pats |-> <<"horror">>, tags |-> <<"horror", "scary", "dark">>],
     [scope |-> "name", pats |-> <<"ghost">>, tags |-> <<"ghost", "horror", "scary">>],
     [scope |-> "name", pats |-> <<"scream">>, tags |-> <<"scream", "horror", "human">>],
     [scope |-> "name", pats |-> <<"glass">>, tags |-> <<"glass", "foley", "break">>],
     [scope |-> "name", pats |-> <<"paper">>, tags |-> <<"paper", "foley">>],
     [scope |-> "name", pats |-> <<"shower">>, tags |-> <<"shower", "household", "water">>],
     [scope |-> "name", pats |-> <<"crowd">>, tags |-> <<"crowd", "human", "group">>],
     [scope |-> "name", pats |-> <<"cheer">>, tags |-> <<"cheer", "crowd", "celebration">>],
     [scope |-> "name", pats |-> <<"water">>, tags |-> <<"water", "liquid", "nature">>],
     [scope |-> "name", pats |-> <<"splash">>, tags |-> <<"splash", "water", "liquid">>],
     [scope |-> "name", pats |-> <<"bubble">>, tags |-> <<"bubble", "water", "liquid">>],
     [scope |-> "name", pats |-> <<"scifi", "sci-fi">>, tags |-> <<"scifi", "futuristic", "technology">>],
     [scope |-> "name", pats |-> <<"alien">>, tags |-> <<"alien", "scifi", "creature">>],
     [scope |-> "name", pats |-> <<"spaceship", "space ship">>, tags |-> <<"spaceship", "scifi", "vehicle">>],
     [scope |-> "name", pats |-> <<"saber">>, tags |-> <<"saber", "scifi", "weapon">>],
     [scope |-> "name", pats |-> <<"sports">>, tags |-> <<"sports", "game">>],
     [scope |-> "name", pats |-> <<"baseball">>, tags |-> <<"baseball", "sports", "game">>],
     [scope |-> "name", pats |-> <<"basketball">>, tags |-> <<"basketball", "sports", "game">>],
     [scope |-> "name", pats |-> <<"football">>, tags |-> <<"football", "sports", "game">>],
     [scope |-> "name", pats |-> <<"arcade">>, tags |-> <<"arcade", "game", "retro">>],
     [scope |-> "name", pats |-> <<"keyboard">>, tags |-> <<"keyboard", "computer", "typing">>],
     [scope |-> "name", pats |-> <<"cell phone", "phone">>, tags |-> <<"phone", "mobile", "communication">>],
     [scope |-> "name", pats |-> <<"car">>, tags |-> <<"car", "vehicle", "transportation">>],
     [scope |-> "name", pats |-> <<"truck">>, tags |-> <<"truck", "vehicle", "transportation">>],
     [scope |-> "name", pats |-> <<"drive">>, tags |-> <<"drive", "vehicle", "transportation">>],
     [scope |-> "name", pats |-> <<"thunder">>, tags |-> <<"thunder", "weather", "storm">>],
     [scope |-> "name", pats |-> <<"lightning">>, tags |-> <<"lightning", "weather", "storm">>],
     [scope |-> "name", pats |-> <<"storm">>, tags |-> <<"storm", "weather", "nature">>],
     [scope |-> "name", pats |-> <<"wind">>, tags |-> <<"wind", "weather", "nature">>],
     [scope |-> "name", pats |-> <<"bleep">>, tags |-> <<"bleep", "digital", "ui">>],
     [scope |-> "name", pats |-> <<"cute">>, tags |-> <<"cute", "playful", "friendly">>],
     [scope |-> "name", pats |-> <<"woosh", "whoosh">>, tags |-> <<"woosh", "movement", "effect">>],
     [scope |-> "name", pats |-> <<"mouth">>, tags |-> <<"mouth", "vocal", "human">>],
     [scope |-> "name", pats |-> <<"readout">>, tags |-> <<"readout", "digital", "computer">>],
     [scope |-> "name", pats |-> <<"hooray">>, tags |-> <<"hooray", "celebration", "human">>],
     [scope |-> "name", pats |-> <<"motionsound">>, tags |-> <<"motionsound", "sound effect">>] >>

\* Adobe: the fixed library tags pushed for every record.
AdobeLibraryTags == <<>>

\* XDSoundKit: the conditional tag rules of processAudioDirectory, in source order (scripts/generateXDSoundKitManifest.js:50-84).
XDSoundKitRules ==
  << [scope |-> "cat", pats |-> <<"dings", "dongs">>, tags |-> <<"ding", "dong", "bell", "chime", "notification">>],
     [scope |-> "cat", pats |-> <<"swishes", "swooshes">>, tags |-> <<"swish", "swoosh", "whoosh", "sweep", "movement">>],
     [scope |-> "cat", pats |-> <<"tics", "tacs">>, tags |-> <<"tic", "tac", "tick", "clock", "rhythm">>],
     [scope |-> "cat", pats |-> <<"wums", "wuhs">>, tags |-> <<"wum", "wuh", "warm", "bass", "soft">>],
     [scope |-> "name", pats |-> <<"ding">>, tags |-> <<"ding", "bell", "notification">>],
     [scope |-> "name", pats |-> <<"double">>, tags |-> <<"double", "two", "multiple">>],
     [scope |-> "name", pats |-> <<"triple">>, tags |-> <<"triple", "three", "multiple">>],
     [scope |-> "name", pats |-> <<"two step">>, tags |-> <<"two step", "staggered", "double">>],
     [scope |-> "name", pats |-> <<"low power">>, tags |-> <<"low power", "warning", "battery", "alert">>],
     [scope |-> "name", pats |-> <<"pleasant">>, tags |-> <<"pleasant", "friendly", "positive", "happy">>],
     [scope |-> "name", pats |-> <<"falling">>, tags |-> <<"falling", "descending", "down">>],
     [scope |-> "name", pats |-> <<"rising">>, tags |-> <<"rising", "ascending", "up">>],
     [scope |-> "name", pats |-> <<"steps">>, tags |-> <<"steps", "staggered", "sequence">>],
     [scope |-> "name", pats |-> <<"stutter">>, tags |-> <<"stutter", "repeating", "staccato">>],
     [scope |-> "name", pats |-> <<"uhoh", "uh oh">>, tags |-> <<"uh oh", "warning", "alert", "mistake">>],
     [scope |-> "name", pats |-> <<"up down up">>, tags |-> <<"up down up", "bounce", "playful">>],
     [scope |-> "name", pats |-> <<"swipe">>, tags |-> <<"swipe", "gesture", "touch", "mobile">>],
     [scope |-> "name", pats |-> <<"back">>, tags |-> <<"back", "navigation", "return">>],
     [scope |-> "name", pats |-> <<"swoosh">>, tags |-> <<"swoosh", "sweep", "movement">>],
     [scope |-> "name", pats |-> <<"happy">>, tags |-> <<"happy", "positive", "cheerful", "friendly">>],
     [scope |-> "name", pats |-> <<"wish">>, tags |-> <<"wish", "magical", "sparkle">>],
     [scope |-> "name", pats |-> <<"wisp">>, tags |-> <<"wisp", "soft", "gentle", "light">>],
     [scope |-> "name", pats |-> <<"gone with the wind">>, tags |-> <<"gone with the wind", "long", "sweep", "wind">>],
     [scope |-> "name", pats |-> <<"tictac", "tic tac">>, tags |-> <<"tic tac", "clock", "rhythm", "tick">>],
     [scope |-> "name", pats |-> <<"dial">>, tags |-> <<"dial", "phone", "rotate", "adjust">>],
     [scope |-> "name", pats |-> <<"fast">>, tags |-> <<"fast", "quick", "rapid">>],
     [scope |-> "name", pats |-> <<"medium">>, tags |-> <<"medium", "moderate", "mid">>],
     [scope |-> "name", pats |-> <<"slow">>, tags |-> <<"slow", "leisurely", "relaxed">>],
     [scope |-> "name", pats |-> <<"drop">>, tags |-> <<"drop", "fall", "release">>],
     [scope |-> "name", pats |-> <<"select">>, tags |-> <<"select", "choose", "pick", "ui">>],
     [scope |-> "name", pats |-> <<"warm">>, tags |-> <<"warm", "soft", "pleasant", "comfortable">>],
     [scope |-> "name", pats |-> <<"power">>, tags |-> <<"power", "energy", "strength">>],
     [scope |-> "name", pats |-> <<"wobble">>, tags |-> <<"wobble", "unstable", "shake", "vibration">>] >>

\* XDSoundKit: the fixed library tags pushed for every record.
XDSoundKitLibraryTags == <<"xd soundkit", "ui", "notification", "interface">>

\* Other: the conditional tag rules of processAudioDirectory, in source order (unnamed/part_000:50-106).
OtherRules ==
  << [scope |-> "name", pats |-> <<"bomb jack">>, tags |-> <<"bomb jack", "arcade", "platformer", "mark cooksey">>],
     [scope |-> "name", pats |-> <<"frankie goes to hollywood">>, tags |-> <<"frankie goes to hollywood", "fred gray", "c64", "commodore">>],
     [scope |-> "name", pats |-> <<"hyper sports">>, tags |-> <<"hyper sports", "martin galway", "sports", "olympic">>],
     [scope |-> "name", pats |-> <<"lazy jones">>, tags |-> <<"lazy jones", "david whittaker", "c64", "commodore">>],
     [scope |-> "name", pats |-> <<"super mario">>, tags |-> <<"super mario", "koji kondo", "nintendo", "nes">>],
     [scope |-> "name", pats |-> <<"yie ar kung fu">>, tags |-> <<"yie ar kung fu", "martin galway", "fighting", "arcade">>],
     [scope |-> "name", pats |-> <<"mark cooksey">>, tags |-> <<"mark cooksey", "composer">>],
     [scope |-> "name", pats |-> <<"fred gray">>, tags |-> <<"fred gray", "composer">>],
     [scope |-> "name", pats |-> <<"martin galway">>, tags |-> <<"martin galway", "composer">>],
     [scope |-> "name", pats |-> <<"david whittaker">>, tags |-> <<"david whittaker", "composer">>],
     [scope |-> "name", pats |-> <<"koji kondo">>, tags |-> <<"koji kondo", "composer">>],
     [scope |-> "name", pats |-> <<"theme", "title">>, tags |-> <<"theme", "title", "menu">>],
     [scope |-> "name", pats |-> <<"in-game", "ingame">>, tags |-> <<"in-game", "gameplay", "background">>],
     [scope |-> "name", pats |-> <<"loop">>, tags |-> <<"loop", "repeating">>],
     [scope |-> "name", pats |-> <<"sting", "stinger">>, tags |-> <<"sting", "stinger", "short", "jingle">>],
     [scope |-> "name", pats |-> <<"string">>, tags |-> <<"string", "synth", "melody">>],
     [scope |-> "name", pats |-> <<"complete", "complete sting">>, tags |-> <<"complete", "success", "victory">>],
     [scope |-> "name", pats |-> <<"game over">>, tags |-> <<"game over", "fail", "end">>],
     [scope |-> "name", pats |-> <<"level complete", "level">>, tags |-> <<"level", "stage", "complete">>],
     [scope |-> "name", pats |-> <<"song">>, tags |-> <<"song", "track", "music">>],
     [scope |-> "name", pats |-> <<"castle">>, tags |-> <<"castle", "dungeon", "boss">>],
     [scope |-> "name", pats |-> <<"overworld">>, tags |-> <<"overworld", "main", "outdoor">>],
     [scope |-> "name", pats |-> <<"underwater">>, tags |-> <<"underwater", "swimming", "water">>],
     [scope |-> "name", pats |-> <<"underworld">>, tags |-> <<"underworld", "underground", "cave">>],
     [scope |-> "name", pats |-> <<"princess", "peach">>, tags |-> <<"princess", "peach", "ending", "victory">>],
     [scope |-> "name", pats |-> <<"superstar">>, tags |-> <<"superstar", "powerup", "star">>],
     [scope |-> "name", pats |-> <<"time">>, tags |-> <<"time", "warning", "urgent">>],
     [scope |-> "name", pats |-> <<"lose a life">>, tags |-> <<"lose a life", "death", "fail">>],
     [scope |-> "name", pats |-> <<"full mix">>, tags |-> <<"full mix", "complete", "arrangement">>],
     [scope |-> "name", pats |-> <<"pulse channel">>, tags |-> <<"pulse channel", "chiptune", "nes", "channel">>],
     [scope |-> "name", pats |-> <<"triangle channel", "triangle wave">>, tags |-> <<"triangle", "bass", "nes", "channel">>],
     [scope |-> "name", pats |-> <<"noise channel">>, tags |-> <<"noise", "percussion", "drums", "nes">>],
     [scope |-> "name", pats |-> <<"kung fu">>, tags |-> <<"kung fu", "fighting", "martial arts">>],
     [scope |-> "name", pats |-> <<"level start">>, tags |-> <<"level start", "begin", "intro">>],
     [scope |-> "name", pats |-> <<"level complete">>, tags |-> <<"level complete", "victory", "success">>],
     [scope |-> "name", pats |-> <<"sports">>, tags |-> <<"sports", "athletics", "competition">>],
     [scope |-> "name", pats |-> <<"lazy">>, tags |-> <<"lazy", "relaxed", "casual">>],
     [scope |-> "name", pats |-> <<"flower power">>, tags |-> <<"flower power", "theme", "psychedelic">>],
     [scope |-> "name", pats |-> <<"sobre las olas">>, tags |-> <<"sobre las olas", "classical", "waltz">>],
     [scope |-> "name", pats |-> <<"magnetic fields">>, tags |-> <<"magnetic fields", "influence">>],
     [scope |-> "name", pats |-> <<"jean-michel jarre">>, tags |-> <<"jean-michel jarre", "synth", "electronic", "influence">>] >>

\* Other: the fixed library tags pushed for every record.
OtherLibraryTags == <<"retro", "game music", "soundtrack">>

\* FilmCow: the conditional tag rules of processAudioDirectory, in source order (unnamed/part_000:352-437).
FilmCowRules ==
  << [scope |-> "cat", pats |-> <<"designed">>, tags |-> <<"designed", "sfx">>],
     [scope |-> "cat", pats |-> <<"recorded">>, tags |-> <<"recorded", "foley">>],
     [scope |-> "name", pats |-> <<"alien">>, tags |-> <<"alien", "scifi">>],
     [scope |-> "name", pats |-> <<"robot">>, tags |-> <<"robot", "mechanical">>],
     [scope |-> "name", pats |-> <<"laser">>, tags |-> <<"laser", "weapon">>],
     [scope |-> "name", pats |-> <<"space">>, tags |-> <<"space", "scifi">>],
     [scope |-> "name", pats |-> <<"sci fi", "sci-fi">>, tags |-> <<"scifi">>],
     [scope |-> "name", pats |-> <<"bug">>, tags |-> <<"bug", "insect">>],
     [scope |-> "name", pats |-> <<"goo">>, tags |-> <<"goo", "liquid", "slime">>],
     [scope |-> "name", pats |-> <<"ai">>, tags |-> <<"ai", "computer", "digital">>],
     [scope |-> "name", pats |-> <<"computer">>, tags |-> <<"computer", "digital">>],
     [scope |-> "name", pats |-> <<"machine">>, tags |-> <<"machine", "mechanical">>],
     [scope |-> "name", pats |-> <<"footstep">>, tags |-> <<"footstep", "walk">>],
     [scope |-> "name", pats |-> <<"door">>, tags |-> <<"door", "transition">>],
     [scope |-> "name", pats |-> <<"glass">>, tags |-> <<"glass">>],
     [scope |-> "name", pats |-> <<"metal">>, tags |-> <<"metal">>],
     [scope |-> "name", pats |-> <<"wood">>, tags |-> <<"wood">>],
     [scope |-> "name", pats |-> <<"water">>, tags |-> <<"water", "liquid">>],
     [scope |-> "name", pats |-> <<"splash">>, tags |-> <<"splash", "water">>],
     [scope |-> "name", pats |-> <<"paper">>, tags |-> <<"paper">>],
     [scope |-> "name", pats |-> <<"gun">>, tags |-> <<"gun", "weapon">>],
     [scope |-> "name", pats |-> <<"punch">>, tags |-> <<"punch", "combat">>],
     [scope |-> "name", pats |-> <<"hit">>, tags |-> <<"hit", "impact">>],
     [scope |-> "name", pats |-> <<"drop">>, tags |-> <<"drop">>],
     [scope |-> "name", pats |-> <<"bell">>, tags |-> <<"bell">>],
     [scope |-> "name", pats |-> <<"click">>, tags |-> <<"click", "ui">>],
     [scope |-> "name", pats |-> <<"horn">>, tags |-> <<"horn">>],
     [scope |-> "name", pats |-> <<"lightning">>, tags |-> <<"lightning", "electric">>],
     [scope |-> "name", pats |-> <<"thump">>, tags |-> <<"thump", "impact">>],
     [scope |-> "name", pats |-> <<"communication">>, tags |-> <<"communication", "transmission">>],
     [scope |-> "name", pats |-> <<"atmospheric">>, tags |-> <<"atmospheric", "ambience">>],
     [scope |-> "name", pats |-> <<"stinger">>, tags |-> <<"stinger", "transition">>],
     [scope |-> "name", pats |-> <<"ocean">>, tags |-> <<"ocean", "water", "ambience">>],
     [scope |-> "name", pats |-> <<"wave">>, tags |-> <<"wave", "water">>],
     [scope |-> "name", pats |-> <<"toilet">>, tags |-> <<"toilet", "bathroom">>],
     [scope |-> "name", pats |-> <<"chair">>, tags |-> <<"chair", "furniture">>],
     [scope |-> "name", pats |-> <<"book">>, tags |-> <<"book">>],
     [scope |-> "name", pats |-> <<"bottle">>, tags |-> <<"bottle">>],
     [scope |-> "name", pats |-> <<"knife">>, tags |-> <<"knife", "weapon">>],
     [scope |-> "name", pats |-> <<"umbrella">>, tags |-> <<"umbrella">>],
     [scope |-> "name", pats |-> <<"velcro">>, tags |-> <<"velcro">>],
     [scope |-> "name", pats |-> <<"teapot">>, tags |-> <<"teapot", "kitchen">>],
     [scope |-> "name", pats |-> <<"silverware">>, tags |-> <<"silverware", "kitchen">>],
     [scope |-> "name", pats |-> <<"rock">>, tags |-> <<"rock", "stone">>],
     [scope |-> "name", pats |-> <<"leaf", "leaves">>, tags |-> <<"leaf", "nature">>],
     [scope |-> "name", pats |-> <<"grass">>, tags |-> <<"grass", "nature">>],
     [scope |-> "name", pats |-> <<"bush">>, tags |-> <<"bush", "nature">>],
     [scope |-> "name", pats |-> <<"swamp">>, tags |-> <<"swamp", "nature", "ambience">>],
     [scope |-> "name", pats |-> <<"body">>, tags |-> <<"body", "human">>],
     [scope |-> "name", pats |-> <<"grunt">>, tags |-> <<"grunt", "voice", "human">>],
     [scope |-> "name", pats |-> <<"oof">>, tags |-> <<"oof", "voice", "human">>],
     [scope |-> "name", pats |-> <<"land">>, tags |-> <<"land", "movement">>],
     [scope |-> "name", pats |-> <<"fall">>, tags |-> <<"fall", "movement">>],
     [scope |-> "name", pats |-> <<"slap">>, tags |-> <<"slap", "impact">>],
     [scope |-> "name", pats |-> <<"sipping", "sip">>, tags |-> <<"sip", "drink">>],
     [scope |-> "name", pats |-> <<"button">>, tags |-> <<"button", "ui">>],
     [scope |-> "name", pats |-> <<"knob">>, tags |-> <<"knob", "ui">>],
     [scope |-> "name", pats |-> <<"drawer">>, tags |-> <<"drawer", "furniture">>],
     [scope |-> "name", pats |-> <<"crate">>, tags |-> <<"crate", "container">>],
     [scope |-> "name", pats |-> <<"cleaver">>, tags |-> <<"cleaver", "kitchen", "weapon">>],
     [scope |-> "name", pats |-> <<"fish">>, tags |-> <<"fish", "animal">>],
     [scope |-> "name", pats |-> <<"flag">>, tags |-> <<"flag", "fabric">>],
     [scope |-> "name", pats |-> <<"foam">>, tags |-> <<"foam">>],
     [scope |-> "name", pats |-> <<"fudge">>, tags |-> <<"fudge", "food">>],
     [scope |-> "name", pats |-> <<"gas">>, tags |-> <<"gas", "liquid">>],
     [scope |-> "name", pats |-> <<"harpoon">>, tags |-> <<"harpoon", "weapon">>],
     [scope |-> "name", pats |-> <<"beverage">>, tags |-> <<"beverage", "drink">>],
     [scope |-> "name", pats |-> <<"phone">>, tags |-> <<"phone", "electronic">>],
     [scope |-> "name", pats |-> <<"mouse">>, tags |-> <<"mouse", "electronic">>],
     [scope |-> "name", pats |-> <<"orange">>, tags |-> <<"orange", "food">>],
     [scope |-> "name", pats |-> <<"party">>, tags |-> <<"party", "celebration">>],
     [scope |-> "name", pats |-> <<"ping pong">>, tags |-> <<"pingpong", "sport">>],
     [scope |-> "name", pats |-> <<"plastic">>, tags |-> <<"plastic">>],
     [scope |-> "name", pats |-> <<"plate">>, tags |-> <<"plate", "kitchen">>],
     [scope |-> "name", pats |-> <<"rumbling">>, tags |-> <<"rumbling", "ambience">>],
     [scope |-> "name", pats |-> <<"sheet">>, tags |-> <<"sheet", "fabric">>],
     [scope |-> "name", pats |-> <<"spatula">>, tags |-> <<"spatula", "kitchen">>],
     [scope |-> "name", pats |-> <<"spray">>, tags |-> <<"spray", "liquid">>],
     [scope |-> "name", pats |-> <<"tube">>, tags |-> <<"tube">>],
     [scope |-> "name", pats |-> <<"future">>, tags |-> <<"future", "scifi">>],
     [scope |-> "name", pats |-> <<"presence">>, tags |-> <<"presence", "ambience">>],
     [scope |-> "name", pats |-> <<"talking">>, tags |-> <<"talking", "voice">>],
     [scope |-> "name", pats |-> <<"sick">>, tags |-> <<"sick", "voice">>],
     [scope |-> "name", pats |-> <<"freaking">>, tags |-> <<"malfunction">>] >>

\* FilmCow: the fixed library tags pushed for every record.
FilmCowLibraryTags == <<>>

\* H360s: the conditional tag rules of processAudioDirectory, in source order (unnamed/part_001:48-137).
H360sRules ==
  << [scope |-> "name", pats |-> <<"step", "foot">>, tags |-> <<"footsteps", "walk">>],
     [scope |-> "name", pats |-> <<"run">>, tags |-> <<"run", "movement">>],
     [scope |-> "name", pats |-> <<"jump">>, tags |-> <<"jump", "movement">>],
     [scope |-> "name", pats |-> <<"land">>, tags |-> <<"land", "impact">>],
     [scope |-> "name", pats |-> <<"concrete">>, tags |-> <<"concrete", "surface">>],
     [scope |-> "name", pats |-> <<"metal">>, tags |-> <<"metal", "surface">>],
     [scope |-> "name", pats |-> <<"wood">>, tags |-> <<"wood", "surface">>],
     [scope |-> "name", pats |-> <<"grass">>, tags |-> <<"grass", "nature">>],
     [scope |-> "name", pats |-> <<"dirt">>, tags |-> <<"dirt", "ground">>],
     [scope |-> "name", pats |-> <<"gravel">>, tags |-> <<"gravel", "surface">>],
     [scope |-> "name", pats |-> <<"water">>, tags |-> <<"water", "liquid">>],
     [scope |-> "name", pats |-> <<"mud">>, tags |-> <<"mud", "ground">>],
     [scope |-> "name", pats |-> <<"tile">>, tags |-> <<"tile", "surface">>],
     [scope |-> "name", pats |-> <<"glass">>, tags |-> <<"glass", "surface">>],
     [scope |-> "name", pats |-> <<"steel">>, tags |-> <<"steel", "metal">>],
     [scope |-> "name", pats |-> <<"panel">>, tags |-> <<"panel", "surface">>],
     [scope |-> "name", pats |-> <<"grate">>, tags |-> <<"grate", "metal">>],
     [scope |-> "name", pats |-> <<"drop">>, tags |-> <<"drop", "liquid">>],
     [scope |-> "name", pats |-> <<"drip">>, tags |-> <<"drip", "liquid">>],
     [scope |-> "name", pats |-> <<"splash">>, tags |-> <<"splash", "water">>],
     [scope |-> "name", pats |-> <<"cloth">>, tags |-> <<"cloth", "fabric">>],
     [scope |-> "name", pats |-> <<"woosh">>, tags |-> <<"woosh", "fabric", "movement">>],
     [scope |-> "name", pats |-> <<"smoke">>, tags |-> <<"smoke", "effect">>],
     [scope |-> "name", pats |-> <<"card">>, tags |-> <<"card", "paper">>],
     [scope |-> "name", pats |-> <<"flip">>, tags |-> <<"flip", "paper">>],
     [scope |-> "name", pats |-> <<"page">>, tags |-> <<"page", "paper">>],
     [scope |-> "name", pats |-> <<"weapon">>, tags |-> <<"weapon", "combat">>],
     [scope |-> "name", pats |-> <<"grab">>, tags |-> <<"grab", "weapon">>],
     [scope |-> "name", pats |-> <<"punch">>, tags |-> <<"punch", "combat", "impact">>],
     [scope |-> "name", pats |-> <<"hit">>, tags |-> <<"hit", "impact", "combat">>],
     [scope |-> "name", pats |-> <<"swing">>, tags |-> <<"swing", "weapon">>],
     [scope |-> "name", pats |-> <<"block">>, tags |-> <<"block", "combat">>],
     [scope |-> "name", pats |-> <<"ambience", "ambient">>, tags |-> <<"ambience", "background">>],
     [scope |-> "name", pats |-> <<"nature">>, tags |-> <<"nature", "outdoor">>],
     [scope |-> "name", pats |-> <<"city">>, tags |-> <<"city", "urban">>],
     [scope |-> "name", pats |-> <<"room">>, tags |-> <<"room", "indoor">>],
     [scope |-> "name", pats |-> <<"forest">>, tags |-> <<"forest", "nature">>],
     [scope |-> "name", pats |-> <<"wind">>, tags |-> <<"wind", "weather">>],
     [scope |-> "name", pats |-> <<"rain">>, tags |-> <<"rain", "weather", "water">>],
     [scope |-> "name", pats |-> <<"thunder">>, tags |-> <<"thunder", "weather">>],
     [scope |-> "name", pats |-> <<"fire">>, tags |-> <<"fire", "effect">>],
     [scope |-> "name", pats |-> <<"voice", "vocal">>, tags |-> <<"voice", "human">>],
     [scope |-> "name", pats |-> <<"speak">>, tags |-> <<"speak", "voice">>],
     [scope |-> "name", pats |-> <<"breath">>, tags |-> <<"breath", "human">>],
     [scope |-> "name", pats |-> <<"grunt">>, tags |-> <<"grunt", "voice", "effort">>],
     [scope |-> "name", pats |-> <<"gasp">>, tags |-> <<"gasp", "voice">>],
     [scope |-> "name", pats |-> <<"scream">>, tags |-> <<"scream", "voice">>],
     [scope |-> "name", pats |-> <<"laugh">>, tags |-> <<"laugh", "voice">>],
     [scope |-> "name", pats |-> <<"explosion">>, tags |-> <<"explosion", "combat", "impact">>],
     [scope |-> "name", pats |-> <<"gun", "shot">>, tags |-> <<"gun", "weapon", "combat">>],
     [scope |-> "name", pats |-> <<"magic">>, tags |-> <<"magic", "effect">>],
     [scope |-> "name", pats |-> <<"spell">>, tags |-> <<"spell", "magic">>],
     [scope |-> "name", pats |-> <<"power">>, tags |-> <<"power", "effect">>],
     [scope |-> "name", pats |-> <<"charge">>, tags |-> <<"charge", "effect">>],
     [scope |-> "name", pats |-> <<"laser">>, tags |-> <<"laser", "scifi", "weapon">>],
     [scope |-> "name", pats |-> <<"electric">>, tags |-> <<"electric", "effect">>],
     [scope |-> "name", pats |-> <<"door">>, tags |-> <<"door", "transition">>],
     [scope |-> "name", pats |-> <<"gate">>, tags |-> <<"gate", "transition">>],
     [scope |-> "name", pats |-> <<"button">>, tags |-> <<"button", "ui">>],
     [scope |-> "name", pats |-> <<"click">>, tags |-> <<"click", "ui">>],
     [scope |-> "name", pats |-> <<"switch">>, tags |-> <<"switch", "mechanical">>],
     [scope |-> "name", pats |-> <<"lever">>, tags |-> <<"lever", "mechanical">>],
     [scope |-> "name", pats |-> <<"engine">>, tags |-> <<"engine", "machine">>],
     [scope |-> "name", pats |-> <<"motor">>, tags |-> <<"motor", "machine">>],
     [scope |-> "name", pats |-> <<"fan">>, tags |-> <<"fan", "machine">>],
     [scope |-> "name", pats |-> <<"machine">>, tags |-> <<"machine", "mechanical">>],
     [scope |-> "name", pats |-> <<"alarm">>, tags |-> <<"alarm", "warning">>],
     [scope |-> "name", pats |-> <<"siren">>, tags |-> <<"siren", "warning">>],
     [scope |-> "name", pats |-> <<"bell">>, tags |-> <<"bell", "signal">>],
     [scope |-> "name", pats |-> <<"absolver">>, tags |-> <<"absolver", "game">>],
     [scope |-> "name", pats |-> <<"brawlhalla">>, tags |-> <<"brawlhalla", "game">>],
     [scope |-> "name", pats |-> <<"injustice">>, tags |-> <<"injustice", "game">>],
     [scope |-> "name", pats |-> <<"fatal">>, tags |-> <<"fatalfake", "game">>],
     [scope |-> "name", pats |-> <<"ui", "menu">>, tags |-> <<"ui", "interface">>],
     [scope |-> "name", pats |-> <<"notification">>, tags |-> <<"notification", "ui">>],
     [scope |-> "name", pats |-> <<"select">>, tags |-> <<"select", "ui">>],
     [scope |-> "name", pats |-> <<"confirm">>, tags |-> <<"confirm", "ui">>],
     [scope |-> "name", pats |-> <<"cancel">>, tags |-> <<"cancel", "ui">>] >>

\* H360s: the fixed library tags pushed for every record.
H360sLibraryTags == <<>>

\* Kenney: the conditional tag rules of processAudioDirectory, in source order (scripts/generateKenneyManifest.js:33-135).
KenneyRules ==
  << [scope |-> "cat", pats |-> <<"impact">>, tags |-> <<"impact", "hit">>],
     [scope |-> "cat", pats |-> <<"interface">>, tags |-> <<"ui", "interface">>],
     [scope |-> "cat", pats |-> <<"rpg">>, tags |-> <<"rpg", "fantasy">>],
     [scope |-> "cat", pats |-> <<"sci-fi">>, tags |-> <<"scifi", "futuristic">>],
     [scope |-> "cat", pats |-> <<"digital">>, tags |-> <<"digital", "retro">>],
     [scope |-> "cat", pats |-> <<"ui">>, tags |-> <<"ui", "interface">>],
     [scope |-> "cat", pats |-> <<"voiceover">>, tags |-> <<"voiceover", "voice">>],
     [scope |-> "subeq", pats |-> <<"male">>, tags |-> <<"male", "voice">>],
     [scope |-> "subeq", pats |-> <<"female">>, tags |-> <<"female", "voice">>],
     [scope |-> "name", pats |-> <<"footstep">>, tags |-> <<"footstep", "walk">>],
     [scope |-> "name", pats |-> <<"door">>, tags |-> <<"door", "transition">>],
     [scope |-> "name", pats |-> <<"laser">>, tags |-> <<"laser", "weapon">>],
     [scope |-> "name", pats |-> <<"engine">>, tags |-> <<"engine", "machine">>],
     [scope |-> "name", pats |-> <<"explosion">>, tags |-> <<"explosion">>],
     [scope |-> "name", pats |-> <<"click">>, tags |-> <<"click">>],
     [scope |-> "name", pats |-> <<"switch">>, tags |-> <<"switch">>],
     [scope |-> "name", pats |-> <<"metal">>, tags |-> <<"metal">>],
     [scope |-> "name", pats |-> <<"glass">>, tags |-> <<"glass">>],
     [scope |-> "name", pats |-> <<"wood">>, tags |-> <<"wood">>],
     [scope |-> "name", pats |-> <<"book">>, tags |-> <<"book">>],
     [scope |-> "name", pats |-> <<"cloth">>, tags |-> <<"cloth", "fabric">>],
     [scope |-> "name", pats |-> <<"knife">>, tags |-> <<"knife", "weapon">>],
     [scope |-> "name", pats |-> <<"coin">>, tags |-> <<"coin", "money">>],
     [scope |-> "name", pats |-> <<"carpet">>, tags |-> <<"carpet">>],
     [scope |-> "name", pats |-> <<"concrete">>, tags |-> <<"concrete">>],
     [scope |-> "name", pats |-> <<"grass">>, tags |-> <<"grass", "nature">>],
     [scope |-> "name", pats |-> <<"snow">>, tags |-> <<"snow", "winter">>],
     [scope |-> "name", pats |-> <<"punch">>, tags |-> <<"punch", "combat">>],
     [scope |-> "name", pats |-> <<"bell">>, tags |-> <<"bell">>],
     [scope |-> "name", pats |-> <<"plate">>, tags |-> <<"plate">>],
     [scope |-> "name", pats |-> <<"plank">>, tags |-> <<"plank", "wood">>],
     [scope |-> "name", pats |-> <<"tin">>, tags |-> <<"tin", "metal">>],
     [scope |-> "name", pats |-> <<"mining">>, tags |-> <<"mining", "dig">>],
     [scope |-> "name", pats |-> <<"soft">>, tags |-> <<"soft">>],
     [scope |-> "name", pats |-> <<"heavy">>, tags |-> <<"heavy">>],
     [scope |-> "name", pats |-> <<"light">>, tags |-> <<"light">>],
     [scope |-> "name", pats |-> <<"medium">>, tags |-> <<"medium">>],
     [scope |-> "name", pats |-> <<"computer">>, tags |-> <<"computer", "digital">>],
     [scope |-> "name", pats |-> <<"forcefield">>, tags |-> <<"forcefield">>],
     [scope |-> "name", pats |-> <<"slime">>, tags |-> <<"slime", "liquid">>],
     [scope |-> "name", pats |-> <<"thruster">>, tags |-> <<"thruster", "fire">>],
     [scope |-> "name", pats |-> <<"space">>, tags |-> <<"space">>],
     [scope |-> "name", pats |-> <<"retro">>, tags |-> <<"retro">>],
     [scope |-> "name", pats |-> <<"large">>, tags |-> <<"large">>],
     [scope |-> "name", pats |-> <<"small">>, tags |-> <<"small">>],
     [scope |-> "name", pats |-> <<"circular">>, tags |-> <<"circular">>],
     [scope |-> "name", pats |-> <<"low">>, tags |-> <<"low">>],
     [scope |-> "name", pats |-> <<"back">>, tags |-> <<"navigation">>],
     [scope |-> "name", pats |-> <<"close">>, tags |-> <<"transition">>],
     [scope |-> "name", pats |-> <<"open">>, tags |-> <<"transition">>],
     [scope |-> "name", pats |-> <<"confirmation">>, tags |-> <<"confirmation", "success">>],
     [scope |-> "name", pats |-> <<"error">>, tags |-> <<"error", "notification">>],
     [scope |-> "name", pats |-> <<"drop">>, tags |-> <<"drop">>],
     [scope |-> "name", pats |-> <<"glitch">>, tags |-> <<"glitch", "digital">>],
     [scope |-> "name", pats |-> <<"maximize">>, tags |-> <<"window">>],
     [scope |-> "name", pats |-> <<"minimize">>, tags |-> <<"window">>],
     [scope |-> "name", pats |-> <<"question">>, tags |-> <<"question", "notification">>],
     [scope |-> "name", pats |-> <<"scratch">>, tags |-> <<"scratch">>],
     [scope |-> "name", pats |-> <<"scroll">>, tags |-> <<"scroll">>],
     [scope |-> "name", pats |-> <<"select">>, tags |-> <<"select">>],
     [scope |-> "name", pats |-> <<"toggle">>, tags |-> <<"toggle">>],
     [scope |-> "name", pats |-> <<"tick">>, tags |-> <<"tick", "clock">>],
     [scope |-> "name", pats |-> <<"bong">>, tags |-> <<"notification">>],
     [scope |-> "name", pats |-> <<"pluck">>, tags |-> <<"pluck">>],
     [scope |-> "name", pats |-> <<"belt">>, tags |-> <<"belt", "leather">>],
     [scope |-> "name", pats |-> <<"handle">>, tags |-> <<"handle">>],
     [scope |-> "name", pats |-> <<"chop">>, tags |-> <<"chop", "action">>],
     [scope |-> "name", pats |-> <<"creak">>, tags |-> <<"creak">>],
     [scope |-> "name", pats |-> <<"draw">>, tags |-> <<"draw">>],
     [scope |-> "name", pats |-> <<"slice">>, tags |-> <<"slice">>],
     [scope |-> "name", pats |-> <<"latch">>, tags |-> <<"latch">>],
     [scope |-> "name", pats |-> <<"pot">>, tags |-> <<"pot">>],
     [scope |-> "name", pats |-> <<"powerup">>, tags |-> <<"powerup", "game">>],
     [scope |-> "name", pats |-> <<"zap">>, tags |-> <<"zap">>],
     [scope |-> "name", pats |-> <<"trash">>, tags |-> <<"trash">>],
     [scope |-> "name", pats |-> <<"war_">>, tags |-> <<"war", "combat">>],
     [scope |-> "name", pats |-> <<"game_over">>, tags |-> <<"gameover">>],
     [scope |-> "name", pats |-> <<"you_win">>, tags |-> <<"win", "success">>],
     [scope |-> "name", pats |-> <<"you_lose">>, tags |-> <<"lose", "fail">>],
     [scope |-> "name", pats |-> <<"mission">>, tags |-> <<"mission">>],
     [scope |-> "name", pats |-> <<"level">>, tags |-> <<"level">>],
     [scope |-> "name", pats |-> <<"round">>, tags |-> <<"round">>],
     [scope |-> "name", pats |-> <<"ready">>, tags |-> <<"ready">>],
     [scope |-> "name", pats |-> <<"set">>, tags |-> <<"set">>],
     [scope |-> "name", pats |-> <<"go">>, tags |-> <<"go">>],
     [scope |-> "name", pats |-> <<"correct">>, tags |-> <<"correct", "success">>],
     [scope |-> "name", pats |-> <<"wrong">>, tags |-> <<"wrong", "fail">>],
     [scope |-> "name", pats |-> <<"congratulations">>, tags |-> <<"congratulations", "success">>],
     [scope |-> "name", pats |-> <<"hurry">>, tags |-> <<"hurry", "time">>],
     [scope |-> "name", pats |-> <<"tie">>, tags |-> <<"tie">>],
     [scope |-> "name", pats |-> <<"highscore">>, tags |-> <<"highscore", "score">>],
     [scope |-> "name", pats |-> <<"objective">>, tags |-> <<"objective">>],
     [scope |-> "name", pats |-> <<"medic">>, tags |-> <<"medic">>],
     [scope |-> "name", pats |-> <<"sniper">>, tags |-> <<"sniper", "weapon">>],
     [scope |-> "name", pats |-> <<"reloading">>, tags |-> <<"reloading">>],
     [scope |-> "name", pats |-> <<"backup">>, tags |-> <<"backup">>],
     [scope |-> "name", pats |-> <<"cover">>, tags |-> <<"cover">>],
     [scope |-> "name", pats |-> <<"fire">>, tags |-> <<"fire">>],
     [scope |-> "name", pats |-> <<"target">>, tags |-> <<"target">>] >>

\* Kenney: the fixed library tags pushed for every record.
KenneyLibraryTags == <<>>

\* ------------------------------------------------------------------------
\* Tag derivation
\* ------------------------------------------------------------------------

Libraries == {"Boom", "Amiga", "Adobe", "XDSoundKit", "Other", "FilmCow", "H360s", "Kenney"}

Rules(lib) ==
  CASE lib = "Boom" -> BoomRules
    [] lib = "Amiga" -> AmigaRules
    [] lib = "Adobe" -> AdobeRules
    [] lib = "XDSoundKit" -> XDSoundKitRules
    [] lib = "Other" -> OtherRules
    [] lib = "FilmCow" -> FilmCowRules
    [] lib = "H360s" -> H360sRules
    [] lib = "Kenney" -> KenneyRules

LibraryTags(lib) ==
  CASE lib = "Boom" -> BoomLibraryTags
    [] lib = "Amiga" -> AmigaLibraryTags
    [] lib = "Adobe" -> AdobeLibraryTags
    [] lib = "XDSoundKit" -> XDSoundKitLibraryTags
    [] lib = "Other" -> OtherLibraryTags
    [] lib = "FilmCow" -> FilmCowLibraryTags
    [] lib = "H360s" -> H360sLibraryTags
    [] lib = "Kenney" -> KenneyLibraryTags

\* No generator pushes the category and subcategory names.
PushesCategoryTagNever(lib) == FALSE

\* The generators that start the tag list with tags.push(lowerCat) and
\* if (subcategory) tags.push(lowerSubcat); Kenney and FilmCow do not.
PushesCategoryTag(lib) ==
  lib \in {"Boom", "Amiga", "Adobe", "XDSoundKit", "Other", "H360s"}

\* A rule tested on its last pattern only.
RuleFiresOnLastPattern(rule, lowerName, lowerCat, lowerSubcat) ==
  LET p == rule.pats[Len(rule.pats)] IN
    CASE rule.scope = "name" -> Includes(lowerName, p)
      [] rule.scope = "cat" -> Includes(lowerCat, p)
      [] rule.scope = "subeq" -> lowerSubcat = p

\* The condition of one rule.
RuleFires(rule, lowerName, lowerCat, lowerSubcat) ==
  CASE rule.scope = "name" ->
         \E i \in 1..Len(rule.pats) : Includes(lowerName, rule.pats[i])
    [] rule.scope = "cat" ->
         \E i \in 1..Len(rule.pats) : Includes(lowerCat, rule.pats[i])
    [] rule.scope = "subeq" ->
         \E i \in 1..Len(rule.pats) : lowerSubcat = rule.pats[i]

\* The rules matched against the display name instead of the file stem.
LowerNameOfDisplayName(baseName) == ToLowerCase(DeriveName(baseName))

\* const lowerName = baseName.toLowerCase()
LowerName(baseName) == ToLowerCase(baseName)

RECURSIVE RuleTagsBetween(_, _, _, _, _, _)
\* The tags pushed by the rules i..j of the table, in source order.
RuleTagsBetween(rules, i, j, lowerName, lowerCat, lowerSubcat) ==
  IF i > j THEN << >>
  ELSE IF i = j
    THEN (IF RuleFires(rules[i], lowerName, lowerCat, lowerSubcat)
            THEN rules[i].tags ELSE << >>)
  ELSE LET mid == (i + j) \div 2 IN
         RuleTagsBetween(rules, i, mid, lowerName, lowerCat, lowerSubcat)
           \o RuleTagsBetween(rules, mid + 1, j, lowerName, lowerCat, lowerSubcat)

\* The rules as an else-if chain: only the first rule that matches pushes.
RuleTagsFirstMatch(rules, i, lowerName, lowerCat, lowerSubcat) ==
  LET fired == {k \in i..Len(rules) : RuleFires(rules[k], lowerName, lowerCat, lowerSubcat)}
  IN IF fired = {} THEN << >>
     ELSE rules[CHOOSE k \in fired : \A m \in fired : k <= m].tags

\* The tags pushed by the rules i.. of the table, in source order.
RuleTagsFrom(rules, i, lowerName, lowerCat, lowerSubcat) ==
  RuleTagsBetween(rules, i, Len(rules), lowerName, lowerCat, lowerSubcat)

\* The array tags before deduplication, for a generator whose rules are
\* those of the table rules.
PushedTagsWith(lib, rules, baseName, categoryName, subcategory) ==
  LET lowerName == LowerName(baseName)
      lowerCat == ToLowerCase(categoryName)
      lowerSubcat == ToLowerCase(subcategory)
  IN (IF PushesCategoryTag(lib)
        THEN <<lowerCat>> \o (IF subcategory # "" THEN <<lowerSubcat>> ELSE << >>)
        ELSE << >>)
       \o LibraryTags(lib)
       \o RuleTagsFrom(rules, 1, lowerName, lowerCat, lowerSubcat)

\* The array tags before deduplication.
PushedTags(lib, baseName, categoryName, subcategory) ==
  PushedTagsWith(lib, Rules(lib), baseName, categoryName, subcategory)

RECURSIVE UniqueBetween(_, _, _)
\* The entries at positions i..j of tags that occur at no earlier position.
UniqueBetween(tags, i, j) ==
  IF i > j THEN << >>
  ELSE IF i = j
    THEN (IF \E k \in 1..(i - 1) : tags[k] = tags[i] THEN << >> ELSE <<tags[i]>>)
  ELSE LET mid == (i + j) \div 2 IN
         UniqueBetween(tags, i, mid) \o UniqueBetween(tags, mid + 1, j)

UniqueFrom(tags, i) == UniqueBetween(tags, i, Len(tags))

\* The tags taken as pushed, without deduplication.
UniqueTagsKeepsAll(tags) == tags

RECURSIVE LastOccurrencesFrom(_, _)
LastOccurrencesFrom(tags, i) ==
  IF i > Len(tags) THEN << >>
  ELSE (IF \E j \in (i + 1)..Len(tags) : tags[j] = tags[i] THEN << >> ELSE <<tags[i]>>)
         \o LastOccurrencesFrom(tags, i + 1)

\* Deduplication that keeps the last occurrence of a repeated tag.
UniqueTagsKeepLast(tags) == LastOccurrencesFrom(tags, 1)

\* [...new Set(tags)]: first occurrences, in insertion order.
UniqueTags(tags) == UniqueFrom(tags, 1)

\* ------------------------------------------------------------------------
\* The directory tree below a library root
\* ------------------------------------------------------------------------

Node(p, k) == [path |-> p, kind |-> k]

\* The candidate directory entries, in the order a listing returns them.
Universe ==
  << Node(<<"Ambience">>, "dir"),
     Node(<<"Ambience", "Male">>, "dir"),
     Node(<<"Ambience", "Male", "bomb_jack_theme.ogg">>, "file"),
     Node(<<"Ambience", "Male", "Deep">>, "dir"),
     Node(<<"Ambience", "Male", "Deep", "metal_door_open.wav">>, "file"),
     Node(<<"Ambience", "Female">>, "dir"),
     Node(<<"Ambience", "Female", "bomb_jack_theme.ogg">>, "file"),
     Node(<<"Ambience", "X.OGG">>, "file"),
     Node(<<"Ambience", "notes.flac">>, "file"),
     Node(<<"RetroGames">>, "dir"),
     Node(<<"RetroGames", "bomb_jack_theme.ogg">>, "file") >>

UniverseSet == {Universe[i] : i \in 1..Len(Universe)}

Parent(p) == SubSeq(p, 1, Len(p) - 1)

LastName(p) == p[Len(p)]

\* A tree: at most MaxNodes entries, one entry per path, every entry inside
\* a directory of the tree (or directly below the root).
IsTree(t) ==
  /\ Cardinality(t) <= MaxNodes
  /\ \A n, m \in t : n.path = m.path => n = m
  /\ \A n \in t : Len(n.path) > 1 => Node(Parent(n.path), "dir") \in t

Trees == {t \in SUBSET UniverseSet : IsTree(t)}

\* fs.existsSync of a path below the root (<< >> is the root itself).
ExistsSync(t, root, p) ==
  IF p = << >> THEN root ELSE \E n \in t : n.path = p

IsDirectory(t, root, p) ==
  IF p = << >> THEN root ELSE Node(p, "dir") \in t

\* A listing that gives the files of dir before its directories.
ReadDirFilesFirst(t, listing, dir) ==
  LET inside == SelectSeq(listing, LAMBDA n : n \in t /\ Len(n.path) = Len(dir) + 1
                                                /\ Parent(n.path) = dir)
  IN SelectSeq(inside, LAMBDA n : n.kind = "file")
       \o SelectSeq(inside, LAMBDA n : n.kind = "dir")

\* fs.readdirSync(dir): the entries directly inside dir.
ReadDir(t, listing, dir) ==
  SelectSeq(listing, LAMBDA n : n \in t /\ Len(n.path) = Len(dir) + 1
                                  /\ Parent(n.path) = dir)

\* fs.statSync(path).size
FileSize(p) == Len(LastName(p))

RECURSIVE JoinPath(_)
\* path.join of the names of a path
JoinPath(p) ==
  IF p = << >> THEN ""
  ELSE IF Len(p) = 1 THEN p[1]
  ELSE p[1] \o "/" \o JoinPath(Tail(p))

\* ------------------------------------------------------------------------
\* Per-generator constants
\* ------------------------------------------------------------------------

\* The directory below audio/ and the record's library field.
LibraryDir(lib) ==
  CASE lib = "Boom" -> "BoomLibrary"
    [] lib = "Amiga" -> "Amiga Music"
    [] lib = "Adobe" -> "Adobe"
    [] lib = "XDSoundKit" -> "XDSoundKit"
    [] lib = "Other" -> "Other"
    [] lib = "FilmCow" -> "FilmCow"
    [] lib = "H360s" -> "H360s"
    [] lib = "Kenney" -> "Kenney"

\* The library name inside the description sentence.
LibraryDisplayName(lib) ==
  IF lib = "Boom" THEN "Boom Library" ELSE LibraryDir(lib)

\* Kenney's category without the override for voiceover packs.
CategoryNameNoOverride(lib, subdir) ==
  CASE lib = "Adobe" ->
         LET c == UpperAtBoundary(ReplaceChars(subdir, "_", " ")) IN
           IF Includes(c, "Adobe Sound Effects")
             THEN ReplaceFirst(c, "Adobe Sound Effects ", "") ELSE c
    [] lib = "FilmCow" -> UpperAtBoundary(ReplaceFirst(subdir, "FilmCow ", ""))
    [] lib = "Kenney" ->
         UpperAtBoundary(ReplaceChars(ReplaceFirst(subdir, "kenney_", ""), "-", " "))
    [] OTHER -> subdir

\* The category name the top-level loop derives from a folder name.
CategoryName(lib, subdir) ==
  CASE lib = "Adobe" ->
         LET c == UpperAtBoundary(ReplaceChars(subdir, "_", " ")) IN
           IF Includes(c, "Adobe Sound Effects")
             THEN ReplaceFirst(c, "Adobe Sound Effects ", "") ELSE c
    [] lib = "FilmCow" -> UpperAtBoundary(ReplaceFirst(subdir, "FilmCow ", ""))
    [] lib = "Kenney" ->
         IF Includes(ToLowerCase(subdir), "voiceover") THEN "Voices"
         ELSE UpperAtBoundary(ReplaceChars(ReplaceFirst(subdir, "kenney_", ""), "-", " "))
    [] OTHER -> subdir

\* The record path built from the file name alone.
ManifestPathOfBasename(lib, filePath) ==
  "audio/" \o LibraryDir(lib) \o "/" \o LastName(filePath)

\* path.join('audio', <Library>, path.relative(base, path.join(dirPath, file)))
ManifestPath(lib, filePath) ==
  "audio/" \o LibraryDir(lib) \o "/" \o JoinPath(filePath)

\* H360s scans a fixed list of top-level folders.
categories == <<"Ambience", "Combat", "Foley", "Misc", "Voices">>

\* No generator tests item.isDirectory().
ChecksEntryTypeNever(lib) == FALSE

\* Kenney reads file names only (no withFileTypes) and never recurses.
ChecksEntryType(lib) == lib # "Kenney"

\* The recursive call hands down its own subcategory unchanged.
RecursionSubcategoryKept(lib, subcategory, itemName) == subcategory

\* Every variant keeps the first-level directory as H360s does.
RecursionSubcategoryFirstLevel(lib, subcategory, itemName) ==
  IF lib = "FilmCow" THEN ""
  ELSE IF subcategory # "" THEN subcategory ELSE itemName

\* Every variant but FilmCow overrides the subcategory at every level.
RecursionSubcategoryOverrides(lib, subcategory, itemName) ==
  IF lib = "FilmCow" THEN "" ELSE itemName

\* The subcategory argument of the recursive call for directory item.
RecursionSubcategory(lib, subcategory, itemName) ==
  CASE lib = "H360s" -> IF subcategory # "" THEN subcategory ELSE itemName
    [] lib = "FilmCow" -> ""
    [] OTHER -> itemName

CallOf(dir, cat, sub) == [dir |-> dir, cat |-> cat, sub |-> sub]

\* The calls one iteration of Kenney's top-level loop makes for a folder.
KenneyCalls(t, subdir) ==
  LET cat == CategoryName("Kenney", subdir)
      try(folder, sub) ==
        IF ExistsSync(t, TRUE, <<subdir, folder>>)
          THEN <<CallOf(<<subdir, folder>>, cat, sub)>> ELSE << >>
  IN try("Audio", "") \o try("Male", "Male") \o try("Female", "Female")

RECURSIVE FlattenKenney(_, _)
FlattenKenney(t, subdirs) ==
  IF subdirs = << >> THEN << >>
  ELSE KenneyCalls(t, Head(subdirs)) \o FlattenKenney(t, Tail(subdirs))

\* The names of the directories directly below the root, in listing order.
Subdirs(t, listing) ==
  LET ds == SelectSeq(ReadDir(t, listing, << >>), LAMBDA n : n.kind = "dir")
  IN [i \in 1..Len(ds) |-> LastName(ds[i].path)]

\* H360s lists the root as the other generators do.
TopLevelCallsListed(lib, t, listing, root) ==
  CASE lib = "Kenney" -> FlattenKenney(t, Subdirs(t, listing))
    [] OTHER ->
         LET ds == Subdirs(t, listing)
         IN [i \in 1..Len(ds) |-> CallOf(<<ds[i]>>, CategoryName(lib, ds[i]), "")]

\* The top-level processAudioDirectory calls of a run, in order.
TopLevelCalls(lib, t, listing, root) ==
  CASE lib = "H360s" ->
         LET present == SelectSeq(categories, LAMBDA c : ExistsSync(t, root, <<c>>))
         IN [i \in 1..Len(present) |-> CallOf(<<present[i]>>, present[i], "")]
    [] lib = "Kenney" -> FlattenKenney(t, Subdirs(t, listing))
    [] OTHER ->
         LET ds == Subdirs(t, listing)
         IN [i \in 1..Len(ds) |-> CallOf(<<ds[i]>>, CategoryName(lib, ds[i]), "")]

\* ------------------------------------------------------------------------
\* The record of one audio file
\* ------------------------------------------------------------------------

\* The counter incremented before it is read (++id).
RecordIdPreIncrement(counter) == counter + 1

\* id: id++ gives the record the value of the counter before the increment.
RecordId(counter) == counter

MakeRecord(lib, nextId, filePath, categoryName, subcategory, time) ==
  LET file == LastName(filePath)
      baseName == BaseName(file, ExtName(file))
      name == DeriveName(baseName)
      displayName == IF lib = "Kenney" /\ subcategory # ""
                       THEN name \o " (" \o subcategory \o ")" ELSE name
  IN [ id |-> RecordId(nextId),
       path |-> ManifestPath(lib, filePath),
       name |-> displayName,
       category |-> categoryName,
       format |-> Ext(file),
       size |-> FileSize(filePath),
       duration |-> 0,
       rating |-> 0,
       tags |-> UniqueTags(PushedTags(lib, baseName, categoryName, subcategory)),
       description |-> displayName \o " from " \o LibraryDisplayName(lib) \o " "
                         \o categoryName \o " collection.",
       library |-> LibraryDir(lib),
       dateAdded |-> time ]

\* ------------------------------------------------------------------------
\* One run of a generator script
\* ------------------------------------------------------------------------

VARIABLES
  lib,         \* which generator runs
  rootExists,  \* whether audio/<Library> exists
  tree,        \* the directory entries below the root
  order,       \* all entries, in the order the file system lists them
  now,         \* the clock read by new Date()
  pc,          \* "start", "walk", "done" or "aborted"
  err,         \* the uncaught error of an aborted run
  calls,       \* the top-level processAudioDirectory calls still to make
  stack,       \* the active processAudioDirectory calls, innermost last
  manifest,    \* the in-memory array manifest
  id,          \* the counter id
  disk,        \* the file <root>/manifest.json
  writes,      \* how many times the current run has written manifest.json
  run,         \* the number of the current run of the script
  previous     \* manifest.json as the current run found it

generatorVars ==
  <<lib, rootExists, tree, order, now, pc, err, calls, stack, manifest, id, disk,
    writes, run, previous>>

\* The browser application (Google Drive indexing).
VARIABLES
  audioFiles,       \* the engine's master list audioFiles
  indexedFolders,   \* localStorage h360_indexed_folders
  driveAudioFiles,  \* localStorage h360_drive_audio_files
  indexOps          \* how many folders have been indexed so far

driveVars == <<audioFiles, indexedFolders, driveAudioFiles, indexOps>>

\* The browser application (CloudSyncManager and GoogleDriveManager).
VARIABLES
  online,          \* navigator.onLine
  signedIn,        \* googleDrive.isSignedIn
  songFolderId,    \* whether googleDrive.folderId is set
  syncInProgress,  \* CloudSyncManager.syncInProgress
  syncQueue,       \* CloudSyncManager.syncQueue
  storedQueue,     \* localStorage cloudSyncQueue
  localSongs,      \* the songs of IndexedDB, by local id
  driveSongs,      \* the song files of the Drive folder, by Drive id
  passes,          \* the processSyncQueue calls that await an upload
  activeSync,      \* the sync operation that holds syncInProgress
  onlineTimers     \* the pending setTimeout callbacks of onOnline

syncVars ==
  <<online, signedIn, songFolderId, syncInProgress, syncQueue, storedQueue,
    localSongs, driveSongs, passes, activeSync, onlineTimers>>

\* The browser application (the audio search engine of librarySources.js).
VARIABLES
  filterCategory,       \* dataset.category of the active category button
  sortBy,               \* the value of the sortFilter select
  sheetsMetadata,       \* sheetsMetadata: the rows of the connected sheet
  filteredFiles,        \* filteredFiles
  currentIndex,         \* currentIndex, counted from 0, -1 for none
  lastLoaded,           \* the path of the file loadAndPlay loaded last
  autoplay,             \* settings.autoplay
  howl,                 \* howl: the Howler instance
  html5Audio,           \* html5Audio: the audio element of Drive files
  isTryingAlternative,  \* isTryingAlternative
  pending,              \* the promises of play() and fetch() not settled yet
  tickers,              \* the files whose demo progress ticker is running
  progressRAF           \* the loop that made the request held by progressRAF

engineVars ==
  <<filterCategory, sortBy, sheetsMetadata, filteredFiles, currentIndex, lastLoaded, autoplay, howl,
    html5Audio, isTryingAlternative, pending, tickers, progressRAF>>

\* The library sources manager of librarySources.js.
VARIABLES
  userSources,          \* lsManager.userSources
  loadedLibraries,      \* the ids marked in lsManager.loadedLibraries
  panel,                \* lsManager.panel is set: the panel was injected
  fetching,             \* the manifest fetches not settled yet
  storedSources,        \* localStorage h360_library_sources
  storedLoaded,         \* localStorage h360_loaded_libraries
  clock                 \* Date.now()

libraryVars ==
  <<userSources, loadedLibraries, panel, fetching, storedSources, storedLoaded, clock>>

\* The state outside the generator scripts.
browserVars == <<driveVars, syncVars, engineVars, libraryVars>>

vars == <<generatorVars, browserVars>>

\* What a previous run left in manifest.json.
StaleManifest ==
  << [ id |-> 7, path |-> "audio/old/gone.ogg", name |-> "Gone", category |-> "old",
       format |-> "ogg", size |-> 1, duration |-> 0, rating |-> 0, tags |-> <<"old">>,
       description |-> "Gone from old collection.", library |-> "old", dateAdded |-> 0 ] >>

NoFile == [exists |-> FALSE, records |-> << >>]

FileWith(records) == [exists |-> TRUE, records |-> records]

\* The state of a script at its first statement: const manifest = [],
\* let id = 1.
ScriptStarts ==
  /\ now = 1
  /\ pc = "start"
  /\ err = "none"
  /\ calls = << >>
  /\ stack = << >>
  /\ manifest = << >>
  /\ id = 1
  /\ disk = (IF rootExists THEN FileWith(StaleManifest) ELSE NoFile)
  /\ writes = 0
  /\ run = 1
  /\ previous = disk

\* No Drive folder is indexed yet.
DriveIdle ==
  /\ audioFiles = << >>
  /\ indexedFolders = << >>
  /\ driveAudioFiles = << >>
  /\ indexOps = 0

\* new CloudSyncManager(app) and new GoogleDriveManager(app) on a page
\* loaded with the stored queue stored and the browser online or not.
Constructed(stored, isOnline) ==
  /\ online = isOnline
  /\ signedIn = FALSE
  /\ songFolderId = FALSE
  /\ syncInProgress = FALSE
  /\ syncQueue = << >>
  /\ storedQueue = stored
  /\ passes = << >>
  /\ activeSync = "idle"
  /\ onlineTimers = 0

\* The sync manager of a page nobody uses.
SyncIdle ==
  /\ Constructed(<< >>, TRUE)
  /\ localSongs = << >>
  /\ driveSongs = << >>

\* howl = null
NoHowl == [file |-> "", state |-> "none"]

\* html5Audio = null
NoAudio == [created |-> FALSE, src |-> "", paused |-> TRUE, ready |-> FALSE]

\* The player as the page loads it: nothing loaded, nothing playing.
PlayerIdle ==
  /\ currentIndex = -1
  /\ lastLoaded = ""
  /\ howl = NoHowl
  /\ html5Audio = NoAudio
  /\ isTryingAlternative = FALSE
  /\ pending = {}
  /\ tickers = {}
  /\ progressRAF = ""

\* The engine of a page nobody uses: no filter, the default sort.
EngineIdle ==
  /\ filterCategory = "all"
  /\ sortBy = "default"
  /\ sheetsMetadata = {}
  /\ filteredFiles = << >>
  /\ autoplay = FALSE
  /\ PlayerIdle

\* The manager of a browser that never added a source: nothing stored,
\* new LibrarySourcesManager() before the Drive Links modal was opened.
LibraryIdle ==
  /\ userSources = << >>
  /\ loadedLibraries = {}
  /\ panel = FALSE
  /\ fetching = {}
  /\ storedSources = << >>
  /\ storedLoaded = {}
  /\ clock = 0

\* The browser application is not part of a generator run.
BrowserIdle == DriveIdle /\ SyncIdle /\ EngineIdle /\ LibraryIdle

Init ==
  /\ lib \in Libraries
  /\ rootExists \in BOOLEAN
  /\ tree \in (IF rootExists THEN Trees ELSE {{}})
  /\ order = Universe
  /\ ScriptStarts
  /\ BrowserIdle

Abort(e) == pc' = "aborted" /\ err' = e

Top == stack[Len(stack)]

Item == Head(Top.items)

\* The stack once the current item of the innermost call is consumed.
Advanced == [stack EXCEPT ![Len(stack)].items = Tail(@)]

\* processAudioDirectory(c.dir, c.cat, c.sub) entered from the stack st:
\* return at once when the path is missing, else list the directory.
Enter(c, st) ==
  IF ~ExistsSync(tree, rootExists, c.dir)
    THEN stack' = st /\ UNCHANGED <<pc, err>>
  ELSE IF ~IsDirectory(tree, rootExists, c.dir)
    THEN stack' = st /\ Abort("ENOTDIR")
  ELSE /\ stack' = Append(st, [dir |-> c.dir, cat |-> c.cat, sub |-> c.sub,
                               items |-> ReadDir(tree, order, c.dir)])
       /\ UNCHANGED <<pc, err>>

\* The top-level listing of the root (H360s uses its fixed list instead).
ListRoot ==
  /\ pc = "start"
  /\ IF lib # "H360s" /\ ~rootExists
       THEN Abort("ENOENT") /\ UNCHANGED calls
       ELSE /\ calls' = TopLevelCalls(lib, tree, order, rootExists)
            /\ pc' = "walk"
            /\ UNCHANGED err
  /\ UNCHANGED <<lib, rootExists, tree, order, now, run, previous, stack, manifest, id, disk>>
  /\ UNCHANGED <<writes, browserVars>>

\* One iteration of the top-level loop: the next top-level call.
ProcessSubdir ==
  /\ pc = "walk" /\ stack = << >> /\ calls # << >>
  /\ Enter(Head(calls), << >>)
  /\ calls' = Tail(calls)
  /\ UNCHANGED <<lib, rootExists, tree, order, now, run, previous, manifest, id, disk>>
  /\ UNCHANGED <<writes, browserVars>>

InLoop == pc = "walk" /\ stack # << >> /\ Top.items # << >>

\* items.forEach callback, item.isDirectory(): the recursive call.
VisitDirectory ==
  /\ InLoop
  /\ ChecksEntryType(lib) /\ Item.kind = "dir"
  /\ Enter(CallOf(Item.path, Top.cat,
                  RecursionSubcategory(lib, Top.sub, LastName(Item.path))),
           Advanced)
  /\ UNCHANGED <<lib, rootExists, tree, order, now, run, previous, calls, manifest, id, disk>>
  /\ UNCHANGED <<writes, browserVars>>

\* The entry passes the directory test (or meets none, in Kenney).
TakenAsFile == InLoop /\ (ChecksEntryType(lib) => Item.kind = "file")

\* A skipped file that still consumes an id.
SkipFileAdvancesId ==
  /\ TakenAsFile
  /\ Ext(LastName(Item.path)) \notin AllowedExt
  /\ stack' = Advanced
  /\ id' = id + 1
  /\ UNCHANGED <<lib, rootExists, tree, order, now, run, previous, pc, err, calls, manifest, disk>>
  /\ UNCHANGED <<writes, browserVars>>

\* forEach callback: the extension is not in the allow-list.
SkipFile ==
  /\ TakenAsFile
  /\ Ext(LastName(Item.path)) \notin AllowedExt
  /\ stack' = Advanced
  /\ UNCHANGED <<lib, rootExists, tree, order, now, run, previous, pc, err, calls, manifest, id, disk>>
  /\ UNCHANGED <<writes, browserVars>>

\* A record written through to manifest.json as soon as it is collected.
EmitRecordWritesThrough ==
  /\ TakenAsFile
  /\ Ext(LastName(Item.path)) \in AllowedExt
  /\ manifest' = Append(manifest, MakeRecord(lib, id, Item.path, Top.cat, Top.sub, now))
  /\ id' = id + 1
  /\ stack' = Advanced
  /\ disk' = FileWith(manifest') /\ writes' = writes + 1
  /\ UNCHANGED <<lib, rootExists, tree, order, now, run, previous, pc, err, calls>>
  /\ UNCHANGED browserVars

\* forEach callback: stat the file, build the record, manifest.push, id++.
EmitRecord ==
  /\ TakenAsFile
  /\ Ext(LastName(Item.path)) \in AllowedExt
  /\ manifest' = Append(manifest, MakeRecord(lib, id, Item.path, Top.cat, Top.sub, now))
  /\ id' = id + 1
  /\ stack' = Advanced
  /\ UNCHANGED <<lib, rootExists, tree, order, now, run, previous, pc, err, calls, disk>>
  /\ UNCHANGED <<writes, browserVars>>

\* The forEach of the innermost call is over: it returns to its caller.
Return ==
  /\ pc = "walk" /\ stack # << >> /\ Top.items = << >>
  /\ stack' = SubSeq(stack, 1, Len(stack) - 1)
  /\ UNCHANGED <<lib, rootExists, tree, order, now, run, previous, pc, err, calls, manifest, id, disk>>
  /\ UNCHANGED <<writes, browserVars>>

\* fs.readdirSync throws (permissions, I/O) where the run is about to list.
ReaddirFails ==
  /\ \/ pc = "start" /\ lib # "H360s" /\ rootExists
     \/ /\ pc = "walk" /\ stack = << >> /\ calls # << >>
        /\ IsDirectory(tree, rootExists, Head(calls).dir)
     \/ InLoop /\ ChecksEntryType(lib) /\ Item.kind = "dir"
  /\ Abort("EIO")
  /\ UNCHANGED <<lib, rootExists, tree, order, now, run, previous, calls, stack, manifest, id, disk>>
  /\ UNCHANGED <<writes, browserVars>>

\* A failing stat that still writes what was collected so far.
StatFailsWritesPartial ==
  /\ TakenAsFile
  /\ Ext(LastName(Item.path)) \in AllowedExt
  /\ Abort("EIO")
  /\ disk' = FileWith(manifest)
  /\ UNCHANGED <<lib, rootExists, tree, order, now, run, previous, calls, stack, manifest, id>>
  /\ UNCHANGED <<writes, browserVars>>

\* fs.statSync throws (the file vanished after the listing).
StatFails ==
  /\ TakenAsFile
  /\ Ext(LastName(Item.path)) \in AllowedExt
  /\ Abort("EIO")
  /\ UNCHANGED <<lib, rootExists, tree, order, now, run, previous, calls, stack, manifest, id, disk>>
  /\ UNCHANGED <<writes, browserVars>>

\* The write skipped when no record was collected.
WriteManifestUnlessEmpty ==
  /\ pc = "walk" /\ stack = << >> /\ calls = << >>
  /\ IF rootExists
       THEN /\ disk' = (IF manifest = << >> THEN disk ELSE FileWith(manifest))
            /\ writes' = (IF manifest = << >> THEN writes ELSE writes + 1)
            /\ pc' = "done" /\ UNCHANGED err
       ELSE Abort("ENOENT") /\ UNCHANGED <<disk, writes>>
  /\ UNCHANGED <<lib, rootExists, tree, order, now, run, previous, calls, stack, manifest, id>>
  /\ UNCHANGED browserVars

\* fs.writeFileSync(outputPath, JSON.stringify(manifest, null, 2)); the
\* open fails when the directory of outputPath does not exist.
WriteManifest ==
  /\ pc = "walk" /\ stack = << >> /\ calls = << >>
  /\ IF rootExists
       THEN /\ disk' = FileWith(manifest) /\ writes' = writes + 1
            /\ pc' = "done" /\ UNCHANGED err
       ELSE Abort("ENOENT") /\ UNCHANGED <<disk, writes>>
  /\ UNCHANGED <<lib, rootExists, tree, order, now, run, previous, calls, stack, manifest, id>>
  /\ UNCHANGED browserVars

\* A run that starts from manifest.json and appends to its records.
RerunMergesPrevious ==
  /\ pc \in {"done", "aborted"} /\ run < MaxRuns
  /\ pc' = "start" /\ err' = "none"
  /\ calls' = << >> /\ stack' = << >>
  /\ manifest' = disk.records /\ id' = Len(disk.records) + 1
  /\ writes' = 0 /\ run' = run + 1 /\ previous' = disk
  /\ now' = now + 1
  /\ UNCHANGED <<lib, rootExists, tree, order, disk, browserVars>>

\* The script is started again over the same tree: a new process with
\* manifest = [] and id = 1, at a later time.
Rerun ==
  /\ pc \in {"done", "aborted"} /\ run < MaxRuns
  /\ pc' = "start" /\ err' = "none"
  /\ calls' = << >> /\ stack' = << >>
  /\ manifest' = << >> /\ id' = 1
  /\ writes' = 0 /\ run' = run + 1 /\ previous' = disk
  /\ now' = now + 1
  /\ UNCHANGED <<lib, rootExists, tree, order, disk, browserVars>>

Next ==
  \/ ReaddirFails
  \/ Return
  \/ WriteManifest
  \/ ProcessSubdir
  \/ VisitDirectory
  \/ StatFails
  \/ SkipFile
  \/ EmitRecord
  \/ ListRoot

Spec == Init /\ [][Next]_vars

NextRerun == Next \/ Rerun

\* Runs of a script repeated over an unchanged tree.
SpecRerun == Init /\ [][NextRerun]_vars

\* ------------------------------------------------------------------------
\* Properties
\* ------------------------------------------------------------------------

EndsWith(s, suffix) ==
  Len(s) >= Len(suffix) /\ SubSeq(s, Len(s) - Len(suffix) + 1, Len(s)) = suffix

NoDuplicates(seq) == \A i, j \in 1..Len(seq) : i # j => seq[i] # seq[j]

\* The manifest.json a previous run left (none when the root is missing).
InitialDisk == IF rootExists THEN FileWith(StaleManifest) ELSE NoFile

\* The audio files of the tree: regular files with an allowed extension.
AudioFiles ==
  {n \in tree : n.kind = "file" /\ Ext(LastName(n.path)) \in {"ogg", "wav", "mp3"}}

\* The number of records of the manifest whose path is p.
RecordsAt(p) == Cardinality({i \in 1..Len(manifest) : manifest[i].path = p})

\* The top-level folders a generator treats as categories.
ScannedCategory(top) ==
  IF lib = "H360s" THEN \E i \in 1..Len(categories) : categories[i] = top ELSE TRUE

\* C1: in every generator the ids of the manifest are exactly 1..N in array
\* order: the i-th record has id i, in memory at every moment of the walk and
\* in the written file.
C1_IdsAreOneToN ==
  /\ \A i \in 1..Len(manifest) : manifest[i].id = i
  /\ pc = "done" => \A i \in 1..Len(disk.records) : disk.records[i].id = i

\* C1 witness: a written manifest with records of two categories, one of them
\* from a subdirectory.
C1_Witness ==
  /\ pc = "done" /\ Len(disk.records) >= 2
  /\ \E i \in 1..(Len(disk.records) - 1) :
       /\ disk.records[i].category # disk.records[i + 1].category
       /\ Includes(disk.records[i].path, "/Male/")

\* C2: every record's format is one of ogg, wav, mp3, in lowercase, also for
\* a file whose extension is written in uppercase.
C2_FormatAllowed ==
  \A i \in 1..Len(manifest) :
    /\ manifest[i].format \in {"ogg", "wav", "mp3"}
    /\ EndsWith(manifest[i].path, ".OGG") => manifest[i].format = "ogg"

\* C2 witness: X.OGG was emitted with format ogg while notes.flac, listed
\* after it, was passed over.
C2_Witness ==
  /\ pc = "done"
  /\ Node(<<"Ambience", "notes.flac">>, "file") \in tree
  /\ \E i \in 1..Len(manifest) :
       EndsWith(manifest[i].path, "/X.OGG") /\ manifest[i].format = "ogg"

BombJackPath == "audio/Other/RetroGames/bomb_jack_theme.ogg"

\* C4 as stated: in the Other generator RetroGames/bomb_jack_theme.ogg has
\* name Bomb Jack Theme, format ogg and tags including the eleven listed.
C4_Original ==
  \A i \in 1..Len(manifest) :
    (lib = "Other" /\ manifest[i].path = BombJackPath) =>
      /\ manifest[i].name = "Bomb Jack Theme"
      /\ manifest[i].format = "ogg"
      /\ {"retrogames", "retro", "game music", "soundtrack", "bomb jack", "arcade",
          "platformer", "mark cooksey", "theme", "title", "menu"}
           \subseteq {manifest[i].tags[k] : k \in 1..Len(manifest[i].tags)}

\* C4 amended: the record has name Bomb Jack Theme, format ogg and exactly
\* the tags retrogames, retro, game music, soundtrack, theme, title, menu:
\* the stem bomb_jack_theme does not contain "bomb jack", so the Bomb Jack
\* rule does not fire.
C4_BombJackThemeRecord ==
  \A i \in 1..Len(manifest) :
    (lib = "Other" /\ manifest[i].path = BombJackPath) =>
      /\ manifest[i].name = "Bomb Jack Theme"
      /\ manifest[i].format = "ogg"
      /\ manifest[i].tags = <<"retrogames", "retro", "game music", "soundtrack",
                              "theme", "title", "menu">>

\* C4 witness: the Other generator has emitted that record.
C4_Witness ==
  lib = "Other" /\ \E i \in 1..Len(manifest) : manifest[i].path = BombJackPath

\* C5: no record's tags contain the same string twice.
C5_TagsHaveNoDuplicates ==
  \A i \in 1..Len(manifest) : NoDuplicates(manifest[i].tags)

\* C5 witness: the Boom record of Deep/metal_door_open.wav, whose rules push
\* "metal" more than once, carries fewer tags than were pushed.
C5_Witness ==
  /\ lib = "Boom"
  /\ ~NoDuplicates(PushedTags("Boom", "metal_door_open", "Ambience", "Deep"))
  /\ \E i \in 1..Len(manifest) :
       /\ EndsWith(manifest[i].path, "/Deep/metal_door_open.wav")
       /\ Len(manifest[i].tags)
            < Len(PushedTags("Boom", "metal_door_open", "Ambience", "Deep"))

MaleTheme == <<"Ambience", "Male", "bomb_jack_theme.ogg">>
FemaleTheme == <<"Ambience", "Female", "bomb_jack_theme.ogg">>

\* C6: no two records of a manifest have the same path; two files with the
\* same basename in two subdirectories of one category are both present in
\* the finished manifest, under different paths and different ids.
C6_PathsUnique ==
  /\ \A i, j \in 1..Len(manifest) : i # j => manifest[i].path # manifest[j].path
  /\ (/\ pc = "done" /\ ScannedCategory("Ambience")
      /\ Node(MaleTheme, "file") \in tree /\ Node(FemaleTheme, "file") \in tree) =>
       \E i, j \in 1..Len(disk.records) :
         /\ disk.records[i].path = ManifestPath(lib, MaleTheme)
         /\ disk.records[j].path = ManifestPath(lib, FemaleTheme)
         /\ disk.records[i].path # disk.records[j].path
         /\ disk.records[i].id # disk.records[j].id

\* C6 witness: both bomb_jack_theme.ogg files were emitted, one right after
\* the other.
C6_Witness ==
  /\ pc = "done"
  /\ \E i \in 1..(Len(disk.records) - 1) :
       /\ disk.records[i].path = ManifestPath(lib, MaleTheme)
       /\ disk.records[i + 1].path = ManifestPath(lib, FemaleTheme)
       /\ disk.records[i + 1].id = disk.records[i].id + 1

\* The audio files a finished walk of a recursing generator must hold.
UnderScannedCategory(n) == Len(n.path) >= 2 /\ ScannedCategory(n.path[1])

TagSet(r) == {r.tags[k] : k \in 1..Len(r.tags)}

SubdirectoryTags ==
  {ToLowerCase(LastName(n.path)) : n \in {m \in UniverseSet : m.kind = "dir" /\ Len(m.path) >= 2}}

\* The lowercased names of the directories between category folder and file.
DirsAbove(p) == {ToLowerCase(p[k]) : k \in 2..(Len(p) - 1)}

C10_AbortLeavesManifest ==
  /\ pc # "done" => disk = InitialDisk
  /\ disk # InitialDisk => pc = "done" /\ disk = FileWith(manifest)

\* C10 witness: a stat or listing failed after a record had been collected
\* and the old manifest is still in place.
C10_Witness ==
  /\ pc = "aborted" /\ err = "EIO" /\ Len(manifest) >= 1
  /\ disk = FileWith(StaleManifest)

\* The record without its timestamp.
WithoutDate(r) == [r EXCEPT !.dateAdded = 0]

SameButDate(a, b) ==
  Len(a) = Len(b) /\ \A i \in 1..Len(a) : WithoutDate(a[i]) = WithoutDate(b[i])

\* C11: a finished run over an unchanged tree writes the records of the
\* previous finished run, in the same order and equal in every field
\* (id included) except dateAdded; and no record of the manifest file the
\* run found is carried over into a manifest written from scratch.
C11_RegenerationIdentical ==
  pc = "done" =>
    /\ previous # FileWith(StaleManifest) =>
         SameButDate(disk.records, previous.records)
    /\ \A i \in 1..Len(disk.records) : \A j \in 1..Len(StaleManifest) :
         disk.records[i].path # StaleManifest[j].path

\* C11 witness: a second run has rewritten a manifest of two records with
\* new timestamps.
C11_Witness ==
  /\ pc = "done" /\ run = 2 /\ previous # FileWith(StaleManifest)
  /\ Len(disk.records) >= 2
  /\ disk.records[1].dateAdded # previous.records[1].dateAdded
  /\ disk.records[2].id = 2

\* ------------------------------------------------------------------------
\* Google Drive integration: file names
\* ------------------------------------------------------------------------

\* GOOGLE_DRIVE_CONFIG.AUDIO_EXTENSIONS
AUDIO_EXTENSIONS ==
  {".mp3", ".wav", ".ogg", ".flac", ".aac", ".m4a", ".wma", ".aiff"}

\* filename.split('.'): the last part when there is more than one, else ''.
getFileExtension(filename) ==
  LET d == LastDot(filename)
  IN IF d = 0 THEN "" ELSE SubSeq(filename, d + 1, Len(filename))

isAudioFile(filename) ==
  ("." \o ToLowerCase(getFileExtension(filename))) \in AUDIO_EXTENSIONS

\* The entry the innermost loop is at is taken as a file and its extension
\* is none of ogg, wav, mp3.
AtUnsupportedFile ==
  TakenAsFile /\ Ext(LastName(Item.path)) \notin {"ogg", "wav", "mp3"}

\* C12: the step taken at a file whose extension is none of ogg, wav, mp3
\* adds no record, leaves the id counter and the disk alone, raises no
\* error, and moves the loop on to the next entry.
C12_UnsupportedFileIgnored ==
  [][AtUnsupportedFile =>
       /\ manifest' = manifest /\ id' = id /\ disk' = disk
       /\ pc' = "walk" /\ err' = "none"
       /\ stack' = Advanced /\ calls' = calls]_vars

\* C12 witness: a .flac file (an audio file for the Drive integration) was
\* met between two supported files of a finished Boom run; the manifest
\* holds the two, numbered 1 and 2.
C12_Witness ==
  /\ lib = "Boom" /\ pc = "done"
  /\ isAudioFile("notes.flac")
  /\ Node(<<"Ambience", "notes.flac">>, "file") \in tree
  /\ Len(disk.records) = 2
  /\ disk.records[1].path = "audio/BoomLibrary/Ambience/X.OGG"
  /\ disk.records[2].path = "audio/BoomLibrary/RetroGames/bomb_jack_theme.ogg"
  /\ disk.records[2].id = 2

\* ------------------------------------------------------------------------
\* Runs over a library holding files of one stem
\* ------------------------------------------------------------------------

\* A lowercase letter, an uppercase letter, a digit and the two separators.
StemAlphabet == {"a", "B", "7", "_", "-"}

RECURSIVE StemsOfLen(_)
StemsOfLen(n) ==
  IF n = 0 THEN {""}
  ELSE {s \o c : s \in StemsOfLen(n - 1), c \in StemAlphabet}

Stems == UNION {StemsOfLen(n) : n \in 1..MaxStemLen}

\* A category folder with a file of the stem, a Male folder with another,
\* and a file no generator accepts, in listing order.
StemListing(catDir, stem) ==
  << Node(<<catDir>>, "dir"),
     Node(<<catDir, "Male">>, "dir"),
     Node(<<catDir, "Male", stem \o ".ogg">>, "file"),
     Node(<<catDir, stem \o ".WAV">>, "file"),
     Node(<<catDir, "notes.flac">>, "file") >>

StemTree(catDir, stem) ==
  {StemListing(catDir, stem)[i] : i \in 1..Len(StemListing(catDir, stem))}

InitNames ==
  /\ lib \in Libraries
  /\ rootExists = TRUE
  /\ \E stem \in Stems :
       /\ tree = StemTree("Ambience", stem)
       /\ order = StemListing("Ambience", stem)
  /\ ScriptStarts
  /\ BrowserIdle

\* Every generator over every stem of letters, digits, "_" and "-".
SpecNames == InitNames /\ [][Next]_vars

NoSeparators(s) == ~Includes(s, "_") /\ ~Includes(s, "-")

\* The positions where a space-delimited token of s starts.
TokenStarts(s) ==
  {i \in 1..Len(s) : CharAt(s, i) # " " /\ (i = 1 \/ CharAt(s, i - 1) = " ")}

IsUpperLetter(c) == IndexOfChar(UpperAlpha, c) # 0

IsDigit(c) == IndexOfChar(Digits, c) # 0

\* C13 as stated: every record's name has no underscore and no hyphen and
\* each of its space-delimited tokens starts with an uppercase letter.
C13_Original ==
  \A k \in 1..Len(manifest) :
    LET name == manifest[k].name IN
      /\ NoSeparators(name)
      /\ \A i \in TokenStarts(name) : IsUpperLetter(CharAt(name, i))

\* C13: for a stem of ASCII letters, digits, underscores and hyphens the
\* record's name has no underscore and no hyphen, and each space-delimited
\* token starts with an uppercase letter or with a digit (left as it is),
\* except Kenney's trailing "(Male)" or "(Female)", which starts with "(".
C13_NameTokens ==
  \A k \in 1..Len(manifest) :
    LET name == manifest[k].name IN
      /\ NoSeparators(name)
      /\ \A i \in TokenStarts(name) :
           \/ IsUpperLetter(CharAt(name, i))
           \/ IsDigit(CharAt(name, i))
           \/ /\ lib = "Kenney"
              /\ \E sub \in {"Male", "Female"} :
                   /\ EndsWith(name, " (" \o sub \o ")")
                   /\ i = Len(name) - Len(sub) - 1

\* C13 witness: a stem of two lowercase letters around an underscore became
\* a name of two capitalised tokens.
C13_Witness ==
  /\ pc = "done"
  /\ \E k \in 1..Len(disk.records) : disk.records[k].name = "A A"
  /\ Node(<<"Ambience", "a_a.WAV">>, "file") \in tree

\* ------------------------------------------------------------------------
\* Runs over trees with entries of the unexpected kind
\* ------------------------------------------------------------------------

\* Candidate entries: a plain file named Male inside a pack folder, a plain
\* file named Combat below the root, and a folder named like an audio file.
MisplacedUniverse ==
  << Node(<<"Ambience">>, "dir"),
     Node(<<"Ambience", "Male">>, "file"),
     Node(<<"Ambience", "Audio">>, "dir"),
     Node(<<"Ambience", "Audio", "bomb_jack_theme.ogg">>, "file"),
     Node(<<"Ambience", "Audio", "notes.flac">>, "file"),
     Node(<<"Combat">>, "file"),
     Node(<<"RetroGames">>, "dir"),
     Node(<<"RetroGames", "Female">>, "dir"),
     Node(<<"RetroGames", "Female", "loops.ogg">>, "dir"),
     Node(<<"RetroGames", "Female", "metal_door_open.wav">>, "file") >>

MisplacedTrees ==
  {t \in SUBSET {MisplacedUniverse[i] : i \in 1..Len(MisplacedUniverse)} : IsTree(t)}

InitMisplaced ==
  /\ lib \in Libraries
  /\ rootExists = TRUE
  /\ tree \in MisplacedTrees
  /\ order = MisplacedUniverse
  /\ ScriptStarts
  /\ BrowserIdle

SpecMisplaced == InitMisplaced /\ [][Next]_vars

\* C14: no run is aborted by readdirSync refusing a path that is not a
\* directory, whatever kind of entry sits where a folder or a file is
\* expected.
C14_MisplacedEntryNeverAborts == err # "ENOTDIR"

\* A script is synchronous, single-threaded code: while a statement remains
\* it is executed.
SpecFair == Spec /\ WF_vars(Next)

\* C15: every run ends, with the manifest written or aborted by an error;
\* a run that ended with the manifest written has written it once, with the
\* whole walk behind it, and holds every collected record; until then, and
\* in an aborted run, nothing is written.
C15_TerminatesWritingOnce ==
  /\ <>(pc \in {"done", "aborted"})
  /\ [](pc = "done" =>
          /\ writes = 1 /\ disk = FileWith(manifest)
          /\ calls = << >> /\ stack = << >> /\ err = "none")
  /\ [](pc # "done" => writes = 0 /\ disk = InitialDisk)
  /\ [](pc = "aborted" => err # "none")

\* C15 witness: a finished run that wrote three records in its one write.
C15_Witness ==
  /\ pc = "done" /\ writes = 1
  /\ Len(disk.records) = 3 /\ disk.records[3].id = 3

\* ------------------------------------------------------------------------
\* Runs over a library whose file stem or category folder is a rule pattern
\* ------------------------------------------------------------------------

\* The patterns of the rules of one scope in a generator's table.
WordsOf(variant, scope) ==
  UNION {{Rules(variant)[k].pats[j] : j \in 1..Len(Rules(variant)[k].pats)} :
           k \in {i \in 1..Len(Rules(variant)) : Rules(variant)[i].scope = scope}}

\* A category folder and a file stem: every pattern the generator looks for
\* in a file name, inside Ambience; and every pattern it looks for in a
\* category name, and every H360s category, as the folder of take.ogg.
WordCases(variant) ==
  {<<"Ambience", w>> : w \in WordsOf(variant, "name")}
    \cup {<<c, "take">> :
            c \in WordsOf(variant, "cat") \cup {categories[i] : i \in 1..Len(categories)}}

InitWords ==
  /\ lib \in Libraries
  /\ rootExists = TRUE
  /\ \E c \in WordCases(lib) :
       /\ tree = StemTree(c[1], c[2])
       /\ order = StemListing(c[1], c[2])
  /\ ScriptStarts
  /\ BrowserIdle

SpecWords == InitWords /\ [][Next]_vars

\* No character of s is an uppercase letter.
IsLowercase(s) == \A i \in 1..Len(s) : ~IsUpperLetter(CharAt(s, i))

\* C16: every tag of every record is entirely lowercase, in every
\* generator, for category and subcategory names written with capitals and
\* for every tag a rule of the table can push.
C16_TagsLowercase ==
  \A k \in 1..Len(manifest) :
    \A i \in 1..Len(manifest[k].tags) : IsLowercase(manifest[k].tags[i])

\* C16 witness: Boom's record of a file in Ambience/Male carries the folder
\* names as the tags ambience and male.
C16_Witness ==
  /\ lib = "Boom" /\ pc = "done"
  /\ \E k \in 1..Len(disk.records) :
       /\ disk.records[k].category = "Ambience"
       /\ Len(disk.records[k].tags) >= 2
       /\ disk.records[k].tags[1] = "ambience"
       /\ disk.records[k].tags[2] = "male"

\* ------------------------------------------------------------------------
\* Google Drive integration: indexing and removing folders
\* ------------------------------------------------------------------------

FolderMime == "application/vnd.google-apps.folder"

DriveEntry(i, p, n, m) == [id |-> i, parent |-> p, name |-> n, mimeType |-> m]

\* The user's Drive, ordered by name inside each folder: Music holds a.mp3,
\* the folder Loops (holding b.FLAC) and readme.txt; Sfx holds c.wav; Docs
\* holds no audio.
Drive ==
  << DriveEntry("F1", "root", "Music", FolderMime),
     DriveEntry("f1", "F1", "a.mp3", "audio/mpeg"),
     DriveEntry("F2", "F1", "Loops", FolderMime),
     DriveEntry("f2", "F2", "b.FLAC", "audio/flac"),
     DriveEntry("f3", "F1", "readme.txt", "text/plain"),
     DriveEntry("F3", "root", "Sfx", FolderMime),
     DriveEntry("f4", "F3", "c.wav", "audio/wav"),
     DriveEntry("F4", "root", "Docs", FolderMime),
     DriveEntry("f5", "F4", "notes.txt", "text/plain") >>

DriveFolderIds == {Drive[i].id : i \in {j \in 1..Len(Drive) : Drive[j].mimeType = FolderMime}}

DriveFolderName(folderId) ==
  (CHOOSE e \in {Drive[i] : i \in 1..Len(Drive)} : e.id = folderId).name

\* gapi.client.drive.files.list with q = '<folderId>' in parents.
FilesList(folderId) == SelectSeq(Drive, LAMBDA e : e.parent = folderId)

\* file.name.replace(/\.[^/.]+$/, ''): the name without its last extension.
StripExtension(name) ==
  LET d == LastDot(name)
  IN IF d = 0 \/ d = Len(name) THEN name ELSE SubSeq(name, 1, d - 1)

RECURSIVE JoinWith(_, _)
JoinWith(names, sep) ==
  IF names = << >> THEN ""
  ELSE IF Len(names) = 1 THEN names[1]
  ELSE names[1] \o sep \o JoinWith(Tail(names), sep)

\* The record indexDriveFolder builds for an audio file; folderId is the
\* parameter of scanFolder, the folder being listed.
DriveAudioFile(file, folderId, folderName, path) ==
  [ id |-> "drive_" \o file.id,
    path |-> "drive://" \o file.id \o "/" \o file.name,
    name |-> StripExtension(file.name),
    originalName |-> file.name,
    category |-> IF folderName # "" THEN folderName ELSE "Google Drive",
    subcategory |-> JoinWith(path, " > "),
    format |-> getFileExtension(file.name),
    tags |-> <<"google-drive">>,
    description |-> "From Google Drive: " \o folderName \o
                      (IF path = << >> THEN "" ELSE "/" \o JoinWith(path, "/")),
    driveId |-> file.id,
    driveFolderId |-> folderId,
    isGoogleDrive |-> TRUE ]

RECURSIVE ScanFiles(_, _, _, _)
\* scanFolder's loop over the listed files: a folder is scanned in turn, an
\* audio file is pushed, anything else is passed over.
ScanFiles(files, folderId, folderName, path) ==
  IF files = << >> THEN << >>
  ELSE LET file == Head(files) IN
    (IF file.mimeType = FolderMime
       THEN ScanFiles(FilesList(file.id), file.id, folderName, Append(path, file.name))
     ELSE IF isAudioFile(file.name)
       THEN <<DriveAudioFile(file, folderId, folderName, path)>>
     ELSE << >>)
    \o ScanFiles(Tail(files), folderId, folderName, path)

scanFolder(folderId, folderName, path) ==
  ScanFiles(FilesList(folderId), folderId, folderName, path)

indexDriveFolder(folderId, folderName) == scanFolder(folderId, folderName, << >>)

\* f.rating || 0: a Drive file is indexed without a rating.
RatingOf(f) == IF "rating" \in DOMAIN f THEN f.rating ELSE 0

\* audioFiles.filter(...) of applyFilters, for the category button; the
\* search box and the format and library selects are left on 'all'.
FilterFiles(files, category) ==
  SelectSeq(files, LAMBDA f : category = "all" \/ f.category = category)

\* Whether a sorts after b: the compare function of applyFilters is positive.
SortsAfter(a, b, sort) ==
  CASE sort = "rating-desc" -> RatingOf(b) - RatingOf(a) > 0
    [] sort = "rating-asc" -> RatingOf(a) - RatingOf(b) > 0
    [] OTHER -> FALSE

RECURSIVE SortFiles(_, _)
\* filteredFiles.sort(...): Array.prototype.sort is stable, so a file is
\* placed before the first of the sorted files that sorts after it.
SortFiles(files, sort) ==
  IF files = << >> THEN << >>
  ELSE LET n == Len(files)
           sorted == SortFiles(SubSeq(files, 1, n - 1), sort)
           f == files[n]
           later == {i \in 1..Len(sorted) : SortsAfter(sorted[i], f, sort)}
           at == IF later = {} THEN Len(sorted) + 1
                 ELSE CHOOSE i \in later : \A j \in later : i <= j
       IN SubSeq(sorted, 1, at - 1) \o <<f>> \o SubSeq(sorted, at, Len(sorted))

\* applyFilters() over the master list files, the category button and the
\* sort select being category and sort: the playback goes on.
applyFilters(files, category, sort) ==
  /\ filteredFiles' = SortFiles(FilterFiles(files, category), sort)
  /\ currentIndex' = -1

\* What an engine action leaves alone besides the lists and the index.
playerVars ==
  <<lastLoaded, autoplay, howl, html5Audio, isTryingAlternative, pending, tickers,
    progressRAF>>

\* window.addAudioFiles: the files whose id and path are both new are
\* appended to the collection.
addAudioFiles(collection, files) ==
  collection \o
    SelectSeq(files, LAMBDA f :
      /\ \A i \in 1..Len(collection) : collection[i].id # f.id
      /\ \A i \in 1..Len(collection) : collection[i].path # f.path)

\* indexAndAddFolder(folderId, folderName)
IndexAndAddFolder(folderId) ==
  /\ indexOps < MaxIndexOps
  /\ indexOps' = indexOps + 1
  /\ LET folderName == DriveFolderName(folderId)
         files == indexDriveFolder(folderId, folderName)
     IN IF files = << >>
          THEN UNCHANGED <<audioFiles, indexedFolders, driveAudioFiles, filteredFiles,
                           currentIndex>>
          ELSE /\ audioFiles' = addAudioFiles(audioFiles, files)
               /\ IF audioFiles' = audioFiles
                    THEN UNCHANGED <<filteredFiles, currentIndex>>
                    ELSE applyFilters(audioFiles', filterCategory, sortBy)
               /\ indexedFolders' =
                    Append(indexedFolders,
                           [id |-> folderId, name |-> folderName,
                            indexedAt |-> indexOps, fileCount |-> Len(files)])
               /\ driveAudioFiles' = driveAudioFiles \o files
  /\ UNCHANGED <<filterCategory, sortBy, sheetsMetadata, playerVars>>
  /\ UNCHANGED <<generatorVars, syncVars, libraryVars>>

\* indexDriveFolder throws (not authenticated, a failed request): the error
\* is caught and shown, nothing is stored.
IndexFails ==
  /\ indexOps < MaxIndexOps
  /\ indexOps' = indexOps + 1
  /\ UNCHANGED <<audioFiles, indexedFolders, driveAudioFiles>>
  /\ UNCHANGED <<generatorVars, syncVars, engineVars, libraryVars>>

\* The entries of seq other than the one at position index.
Splice(seq, index) == SubSeq(seq, 1, index - 1) \o SubSeq(seq, index + 1, Len(seq))

\* window.removeIndexedFolder(index), index counted from 1.
RemoveIndexedFolder(index) ==
  /\ index \in 1..Len(indexedFolders)
  /\ LET folder == indexedFolders[index] IN
       /\ audioFiles' = SelectSeq(audioFiles, LAMBDA f : f.driveFolderId # folder.id)
       /\ indexedFolders' = Splice(indexedFolders, index)
       /\ driveAudioFiles' =
            SelectSeq(driveAudioFiles, LAMBDA f : f.driveFolderId # folder.id)
       /\ applyFilters(audioFiles', filterCategory, sortBy)
  /\ UNCHANGED <<indexOps, filterCategory, sortBy, sheetsMetadata, playerVars>>
  /\ UNCHANGED <<generatorVars, syncVars, libraryVars>>

\* No script runs while the browser application is used.
ScriptIdle ==
  /\ lib = "H360s" /\ rootExists = FALSE /\ tree = {} /\ order = << >>
  /\ ScriptStarts

InitDrive == ScriptIdle /\ BrowserIdle

NextDrive ==
  \/ \E folderId \in DriveFolderIds : IndexAndAddFolder(folderId)
  \/ IndexFails
  \/ \E index \in 1..MaxIndexOps : RemoveIndexedFolder(index)

SpecDrive == InitDrive /\ [][NextDrive]_vars

IdsOf(files) == {files[i].id : i \in 1..Len(files)}

\* C17: the step that removes an indexed folder leaves, in the collection
\* and in the stored Drive audio files, no audio file that indexing that
\* folder discovers, nested subfolders included.
C17_RemovedFolderLeavesNoFile ==
  [][\A index \in 1..Len(indexedFolders) :
       RemoveIndexedFolder(index) =>
         LET folder == indexedFolders[index]
             found == IdsOf(indexDriveFolder(folder.id, folder.name))
         IN /\ found \cap IdsOf(audioFiles') = {}
            /\ found \cap IdsOf(driveAudioFiles') = {}]_vars

\* The position of the last "/" of s, 0 when there is none.
LastSlash(s) ==
  IF \E i \in 1..Len(s) : CharAt(s, i) = "/"
    THEN CHOOSE i \in 1..Len(s) :
           CharAt(s, i) = "/" /\ \A j \in (i + 1)..Len(s) : CharAt(s, j) # "/"
    ELSE 0

\* The file stem a record's path ends with.
StemOfPath(p) ==
  LET file == SubSeq(p, LastSlash(p) + 1, Len(p))
  IN BaseName(file, ExtName(file))

\* The subcategory a generator passes for a file of a StemListing tree.
SubcategoryOfPath(p) ==
  IF Includes(p, "/Male/") /\ lib # "FilmCow" THEN "Male" ELSE ""

\* The array tags as the generator filled it for record r.
PushedOf(r) == PushedTags(lib, StemOfPath(r.path), r.category, SubcategoryOfPath(r.path))

Elements(seq) == {seq[i] : i \in 1..Len(seq)}

\* The position of the first occurrence of t in seq.
FirstAt(seq, t) ==
  CHOOSE i \in 1..Len(seq) : seq[i] = t /\ \A j \in 1..(i - 1) : seq[j] # t

\* C18: a record's tags are the pushed tags with every later repetition
\* removed: the same tags, each once, in the order of their first pushes.
C18_TagsAreFirstOccurrences ==
  \A k \in 1..Len(manifest) :
    LET tags == manifest[k].tags
        pushed == PushedOf(manifest[k])
    IN /\ Elements(tags) = Elements(pushed)
       /\ NoDuplicates(tags)
       /\ \A a, b \in 1..Len(tags) :
            a < b => FirstAt(pushed, tags[a]) < FirstAt(pushed, tags[b])

\* C18 witness: in the Other generator the stem "level complete" pushes
\* complete, success and victory twice; the record keeps each where it was
\* pushed first, complete before level.
C18_Witness ==
  /\ lib = "Other" /\ pc = "done"
  /\ \E k \in 1..Len(disk.records) :
       LET r == disk.records[k] IN
         /\ StemOfPath(r.path) = "level complete"
         /\ Len(PushedOf(r)) > Len(r.tags)
         /\ FirstAt(r.tags, "complete") < FirstAt(r.tags, "level")
         /\ FirstAt(r.tags, "level") < FirstAt(r.tags, "level complete")

\* The rule table rules with its rules in the order perm of their positions.
Permuted(rules, perm) == [i \in 1..Len(rules) |-> rules[perm[i]]]

Reversed(n) == [i \in 1..n |-> n + 1 - i]

Rotated(n, k) == [i \in 1..n |-> ((i + k - 1) % n) + 1]

\* Evaluation orders of a table of n rules: the source order, its first
\* rotations and the reverse order.
RuleOrders(n) == {Reversed(n)} \cup {Rotated(n, k) : k \in 0..MaxShift}

\* The tags of record r had the rules been evaluated in the order perm.
TagsInOrder(r, perm) ==
  UniqueTags(PushedTagsWith(lib, Permuted(Rules(lib), perm), StemOfPath(r.path),
                            r.category, SubcategoryOfPath(r.path)))

\* C19: the set of tags of a record is the one every other evaluation order
\* of the rule table gives, and it is the category and library tags
\* together with the tags of every rule whose own condition holds.
C19_TagSetOrderIndependent ==
  \A k \in 1..Len(manifest) :
    LET r == manifest[k] IN
      /\ \A perm \in RuleOrders(Len(Rules(lib))) :
           Elements(TagsInOrder(r, perm)) = Elements(r.tags)
      /\ Elements(r.tags) =
           Elements(PushedTagsWith(lib, << >>, StemOfPath(r.path), r.category,
                                   SubcategoryOfPath(r.path)))
             \cup UNION {Elements(Rules(lib)[i].tags) :
                           i \in {j \in 1..Len(Rules(lib)) :
                                    RuleFires(Rules(lib)[j],
                                              LowerName(StemOfPath(r.path)),
                                              ToLowerCase(r.category),
                                              ToLowerCase(SubcategoryOfPath(r.path)))}}

\* C19 witness: for Other's "level complete" the reverse order gives the
\* same tags in another sequence.
C19_Witness ==
  /\ lib = "Other" /\ pc = "done"
  /\ \E k \in 1..Len(disk.records) :
       LET r == disk.records[k] IN
         /\ StemOfPath(r.path) = "level complete"
         /\ TagsInOrder(r, Reversed(Len(Rules(lib)))) # r.tags
         /\ Elements(TagsInOrder(r, Reversed(Len(Rules(lib))))) = Elements(r.tags)

\* The disjuncts <<k, j>> of a table whose pattern contains the pattern of
\* another disjunct of the same rule k: whatever they match, the other
\* disjunct matches too.
SubsumedDisjuncts ==
  [variant \in Libraries |->
     {d \in UNION {{<<k, j>> : j \in 1..Len(Rules(variant)[k].pats)} :
                     k \in 1..Len(Rules(variant))} :
        /\ Rules(variant)[d[1]].scope \in {"name", "cat"}
        /\ \E j \in 1..Len(Rules(variant)[d[1]].pats) :
             /\ j # d[2]
             /\ Includes(Rules(variant)[d[1]].pats[d[2]], Rules(variant)[d[1]].pats[j])
             /\ Rules(variant)[d[1]].pats[d[2]] = Rules(variant)[d[1]].pats[j] => j < d[2]}]

\* The rules k of a table each of whose patterns contains a pattern of an
\* earlier rule of the same scope: whatever they match, an earlier rule
\* matches too.
SubsumedRules ==
  [variant \in Libraries |->
     {k \in 1..Len(Rules(variant)) :
        /\ Rules(variant)[k].scope \in {"name", "cat"}
        /\ \A j \in 1..Len(Rules(variant)[k].pats) :
             \E m \in 1..(k - 1) :
               /\ Rules(variant)[m].scope = Rules(variant)[k].scope
               /\ \E i \in 1..Len(Rules(variant)[m].pats) :
                    Includes(Rules(variant)[k].pats[j], Rules(variant)[m].pats[i])}]

WithoutRule(rules, k) == Splice(rules, k)

WithoutDisjunct(rules, k, j) == [rules EXCEPT ![k].pats = Splice(@, j)]

\* The tags of record r had the generator used the table rules.
TagsWithTable(r, rules) ==
  UniqueTags(PushedTagsWith(lib, rules, StemOfPath(r.path), r.category,
                            SubcategoryOfPath(r.path)))

\* C20 as stated: removing a subsumed rule, or a subsumed disjunct, from
\* the table leaves the tags of every record as they are.
C20_Original ==
  \A n \in 1..Len(manifest) :
    /\ \A k \in SubsumedRules[lib] :
         TagsWithTable(manifest[n], WithoutRule(Rules(lib), k)) = manifest[n].tags
    /\ \A d \in SubsumedDisjuncts[lib] :
         TagsWithTable(manifest[n], WithoutDisjunct(Rules(lib), d[1], d[2]))
           = manifest[n].tags

\* C20: removing from a rule a disjunct whose pattern contains the pattern
\* of another disjunct of the same rule ('stinger' beside 'sting',
\* 'level complete' beside 'level') leaves the tags of every record as
\* they are.  (A separate later rule, such as 'level complete' after
\* 'level' or 'fireball' after 'fire', pushes tags of its own.)
C20_SubsumedDisjunctHarmless ==
  \A n \in 1..Len(manifest) :
    \A d \in SubsumedDisjuncts[lib] :
      TagsWithTable(manifest[n], WithoutDisjunct(Rules(lib), d[1], d[2]))
        = manifest[n].tags

\* C20 witness: in the Other generator the stem "stinger" matches the
\* disjunct 'stinger' of the rule 'sting' || 'stinger'; without the disjunct
\* the record's tags are the same.
C20_Witness ==
  /\ lib = "Other" /\ pc = "done"
  /\ \E n \in 1..Len(disk.records) : \E d \in SubsumedDisjuncts[lib] :
       LET r == disk.records[n] IN
         /\ StemOfPath(r.path) = "stinger"
         /\ Rules(lib)[d[1]].pats[d[2]] = "stinger"
         /\ "stinger" \in Elements(r.tags)
         /\ TagsWithTable(r, WithoutDisjunct(Rules(lib), d[1], d[2])) = r.tags

\* ------------------------------------------------------------------------
\* Runs over a library holding files whose stem has punctuation inside words
\* ------------------------------------------------------------------------

\* A lowercase letter, an uppercase letter, an apostrophe, a dot and an
\* underscore.
PunctAlphabet == {"a", "B", "'", ".", "_"}

RECURSIVE PunctStemsOfLen(_)
PunctStemsOfLen(n) ==
  IF n = 0 THEN {""}
  ELSE {s \o c : s \in PunctStemsOfLen(n - 1), c \in PunctAlphabet}

PunctStems == UNION {PunctStemsOfLen(n) : n \in 1..MaxStemLen}

InitPunct ==
  /\ lib \in Libraries
  /\ rootExists = TRUE
  /\ \E stem \in PunctStems :
       /\ tree = StemTree("Ambience", stem)
       /\ order = StemListing("Ambience", stem)
  /\ ScriptStarts
  /\ BrowserIdle

SpecPunct == InitPunct /\ [][Next]_vars

RECURSIVE TitleCaseFrom(_, _)
\* Title case by whitespace-delimited words: "_" and "-" become spaces, a
\* character that starts the string or follows a separator is uppercased,
\* every other character is kept.
TitleCaseFrom(s, i) ==
  IF i > Len(s) THEN ""
  ELSE LET c == CharAt(s, i)
           isSep(x) == x \in {"_", "-", " "}
       IN (IF isSep(c) THEN " "
           ELSE IF i = 1 \/ isSep(CharAt(s, i - 1)) THEN ToUpperChar(c)
           ELSE c) \o TitleCaseFrom(s, i + 1)

\* C21: the name derived from a stem is the stem with "_" and "-" turned
\* into spaces and the first character of each whitespace-delimited word
\* uppercased; every other character is as in the stem, also a letter that
\* follows an apostrophe or a dot inside a word.
C21_OnlyWordStartsChange ==
  \A k \in 1..Len(manifest) :
    LET stem == StemOfPath(manifest[k].path)
    IN SubSeq(manifest[k].name, 1, Len(stem)) = TitleCaseFrom(stem, 1)

\* ------------------------------------------------------------------------
\* The subcategory of a file at any depth
\* ------------------------------------------------------------------------

\* The generators whose recursive call passes item.name as subcategory.
OverridingLibraries == {"Boom", "Amiga", "Adobe", "XDSoundKit", "Other"}

\* The name of the directory that directly contains the entry at path p, or
\* "" when that directory is the category folder.
ContainingDirectory(p) == IF Len(p) >= 3 THEN p[Len(p) - 1] ELSE ""

\* The call processAudioDirectory(dir, _, sub) of a stack frame got as sub
\* the name of dir, or "" when dir is the category folder.
FrameSubcategoryIsOwnName(f) ==
  f.sub = (IF Len(f.dir) >= 2 THEN LastName(f.dir) ELSE "")

\* C22: in Boom, Amiga, Adobe, XDSoundKit and Other the subcategory of a file
\* is the name of the directory that directly contains it when that directory
\* is below the category folder, and "" when the file is directly in the
\* category folder: every active call holds that value and every record's
\* tags are the ones pushed for it.
C22_SubcategoryIsContainingDirectory ==
  lib \in OverridingLibraries =>
    /\ \A k \in 1..Len(stack) : FrameSubcategoryIsOwnName(stack[k])
    /\ \A n \in AudioFiles : \A i \in 1..Len(manifest) :
         manifest[i].path = ManifestPath(lib, n.path) =>
           manifest[i].tags =
             UniqueTags(PushedTags(lib, BaseName(LastName(n.path), ExtName(LastName(n.path))),
                                   manifest[i].category, ContainingDirectory(n.path)))

\* C22 witness: a record of Ambience/Male/Deep/metal_door_open.wav in one of
\* the five generators, tagged deep and not male, next to a record of a file
\* lying directly in its category folder.
C22_Witness ==
  /\ lib \in OverridingLibraries
  /\ \E i, j \in 1..Len(manifest) :
       /\ EndsWith(manifest[i].path, "/Male/Deep/metal_door_open.wav")
       /\ "deep" \in TagSet(manifest[i]) /\ "male" \notin TagSet(manifest[i])
       /\ EndsWith(manifest[j].path, "RetroGames/bomb_jack_theme.ogg")

\* The name of the first directory below the category folder on the way to
\* the entry at path p, or "" when the entry is directly in the category
\* folder.
FirstLevelDirectory(p) == IF Len(p) >= 3 THEN p[2] ELSE ""

\* C23: in H360s the subcategory, once set to the first directory below the
\* category folder, is not overridden by a deeper directory: every active
\* call and every record of a file two or more directories below the
\* category folder carries the first-level directory's name, not the name of
\* the directory that directly contains the file.
C23_FirstLevelSubcategoryKept ==
  lib = "H360s" =>
    /\ \A k \in 1..Len(stack) :
         stack[k].sub = (IF Len(stack[k].dir) >= 2 THEN stack[k].dir[2] ELSE "")
    /\ \A n \in AudioFiles : \A i \in 1..Len(manifest) :
         manifest[i].path = ManifestPath(lib, n.path) =>
           /\ manifest[i].tags =
                UniqueTags(PushedTags(lib, BaseName(LastName(n.path), ExtName(LastName(n.path))),
                                      manifest[i].category, FirstLevelDirectory(n.path)))
           /\ Len(n.path) >= 4 =>
                /\ ToLowerCase(FirstLevelDirectory(n.path)) \in TagSet(manifest[i])
                /\ ToLowerCase(ContainingDirectory(n.path)) \notin TagSet(manifest[i])

\* C23 witness: the H360s record of Ambience/Male/Deep/metal_door_open.wav,
\* tagged male and not deep.
C23_Witness ==
  /\ lib = "H360s"
  /\ \E i \in 1..Len(manifest) :
       /\ EndsWith(manifest[i].path, "/Male/Deep/metal_door_open.wav")
       /\ "male" \in TagSet(manifest[i]) /\ "deep" \notin TagSet(manifest[i])

\* ------------------------------------------------------------------------
\* Runs over a library of downloaded packs
\* ------------------------------------------------------------------------

\* Top-level folders named as packs are: a voiceover pack with Male and Audio
\* folders and a deeper directory, a second Kenney pack, an Adobe folder.
PackUniverse ==
  << Node(<<"kenney_VoiceOver-pack">>, "dir"),
     Node(<<"kenney_VoiceOver-pack", "Male">>, "dir"),
     Node(<<"kenney_VoiceOver-pack", "Male", "bomb_jack_theme.ogg">>, "file"),
     Node(<<"kenney_VoiceOver-pack", "Male", "Deep">>, "dir"),
     Node(<<"kenney_VoiceOver-pack", "Male", "Deep", "metal_door_open.wav">>, "file"),
     Node(<<"kenney_VoiceOver-pack", "Audio">>, "dir"),
     Node(<<"kenney_VoiceOver-pack", "Audio", "X.OGG">>, "file"),
     Node(<<"kenney_ui-audio">>, "dir"),
     Node(<<"kenney_ui-audio", "Audio">>, "dir"),
     Node(<<"kenney_ui-audio", "Audio", "bomb_jack_theme.ogg">>, "file"),
     Node(<<"Adobe_Sound_Effects_water">>, "dir"),
     Node(<<"Adobe_Sound_Effects_water", "metal_door_open.wav">>, "file") >>

PackTrees ==
  {t \in SUBSET {PackUniverse[i] : i \in 1..Len(PackUniverse)} : IsTree(t)}

InitPacks ==
  /\ lib \in Libraries
  /\ rootExists = TRUE
  /\ tree \in PackTrees
  /\ order = PackUniverse
  /\ ScriptStarts
  /\ BrowserIdle

SpecPacks == InitPacks /\ [][Next]_vars

\* The category the generators derive for the three top-level folders.
ExpectedCategory(top) ==
  CASE lib = "Kenney" /\ top = "kenney_VoiceOver-pack" -> "Voices"
    [] lib = "Kenney" /\ top = "kenney_ui-audio" -> "Ui Audio"
    [] lib = "Kenney" /\ top = "Adobe_Sound_Effects_water" -> "Adobe_Sound_Effects_water"
    [] lib = "Adobe" /\ top = "kenney_VoiceOver-pack" -> "Kenney VoiceOver-Pack"
    [] lib = "Adobe" /\ top = "kenney_ui-audio" -> "Kenney Ui-Audio"
    [] lib = "Adobe" /\ top = "Adobe_Sound_Effects_water" -> "Water"
    [] lib = "FilmCow" /\ top = "kenney_VoiceOver-pack" -> "Kenney_VoiceOver-Pack"
    [] lib = "FilmCow" /\ top = "kenney_ui-audio" -> "Kenney_ui-Audio"
    [] OTHER -> top

\* C24: every record's category is the value derived from the name of the
\* top-level folder its file lies under, the same at every depth below that
\* folder, and so is the category of every active call; a Kenney record from
\* a top-level folder whose name contains voiceover in any letter case has
\* the category Voices.
C24_CategoryFromTopLevelFolder ==
  /\ \A k \in 1..Len(stack) : stack[k].cat = ExpectedCategory(stack[k].dir[1])
  /\ \A n \in AudioFiles : \A i \in 1..Len(manifest) :
       manifest[i].path = ManifestPath(lib, n.path) =>
         /\ manifest[i].category = ExpectedCategory(n.path[1])
         /\ manifest[i].category = CategoryName(lib, n.path[1])
         /\ (lib = "Kenney" /\ Includes(ToLowerCase(n.path[1]), "voiceover"))
              => manifest[i].category = "Voices"

\* C24 witness: Kenney records of the voiceover pack's Male and Audio folders
\* with category Voices, or records of one folder at two depths in a
\* generator that recurses.
C24_Witness ==
  \E i, j \in 1..Len(manifest) :
    /\ i # j
    /\ manifest[i].category = manifest[j].category
    /\ EndsWith(manifest[i].path, "/kenney_VoiceOver-pack/Male/bomb_jack_theme.ogg")
    /\ \/ lib = "Kenney" /\ EndsWith(manifest[j].path, "/Audio/X.OGG")
                         /\ manifest[i].category = "Voices"
       \/ lib # "Kenney" /\ EndsWith(manifest[j].path, "/Male/Deep/metal_door_open.wav")

\* ------------------------------------------------------------------------
\* Runs over directories the file system lists in different orders
\* ------------------------------------------------------------------------

\* A category folder with files listed before and after a subdirectory,
\* which itself holds files around a deeper directory; a second category
\* folder listed before it, and a folder that is none of H360s's categories.
ListedUniverse ==
  << Node(<<"Voices">>, "dir"),
     Node(<<"Voices", "e.mp3">>, "file"),
     Node(<<"Ambience", "z.wav">>, "file"),
     Node(<<"Ambience", "Male">>, "dir"),
     Node(<<"Ambience", "a.ogg">>, "file"),
     Node(<<"Ambience", "Male", "c.ogg">>, "file"),
     Node(<<"Ambience", "Male", "Deep">>, "dir"),
     Node(<<"Ambience", "Male", "b.ogg">>, "file"),
     Node(<<"Ambience", "Male", "Deep", "d.wav">>, "file"),
     Node(<<"RetroGames">>, "dir"),
     Node(<<"Ambience">>, "dir"),
     Node(<<"RetroGames", "e.mp3">>, "file") >>

ListedTrees ==
  {t \in SUBSET {ListedUniverse[i] : i \in 1..Len(ListedUniverse)} : IsTree(t)}

\* readdirSync returns the entries in the order of the file system, which
\* is not sorted: the order above, its first rotations and its reverse.
Listings ==
  {Permuted(ListedUniverse, perm) : perm \in RuleOrders(Len(ListedUniverse))}

InitListed ==
  /\ lib \in Libraries
  /\ rootExists = TRUE
  /\ tree \in ListedTrees
  /\ order \in Listings
  /\ ScriptStarts
  /\ BrowserIdle

SpecListed == InitListed /\ [][Next]_vars

\* The position of the entry at path p in the listing order.
ListedAt(p) == CHOOSE i \in 1..Len(order) : order[i].path = p

\* The first position at which the paths p and q differ.
ForkOf(p, q) ==
  CHOOSE k \in 1..Len(p) :
    /\ k <= Len(q) /\ p[k] # q[k]
    /\ \A m \in 1..(k - 1) : p[m] = q[m]

\* The path of the audio file a record was made for.
FileOf(r) == (CHOOSE n \in AudioFiles : ManifestPath(lib, n.path) = r.path).path

\* The entries of one directory on the way to the files of records i and j
\* are listed in the order of the two records.
InListingOrder(i, j) ==
  LET p == FileOf(manifest[i])
      q == FileOf(manifest[j])
      k == ForkOf(p, q)
  IN ListedAt(SubSeq(p, 1, k)) < ListedAt(SubSeq(q, 1, k))

\* Where a directory listing decides the order of records i and j: in every
\* directory but the root in H360s, which takes its folders from a fixed
\* list, and the pack folders in Kenney, which tries Audio, Male and
\* Female in turn.
WalksListing(i, j) ==
  LET k == ForkOf(FileOf(manifest[i]), FileOf(manifest[j]))
  IN /\ lib = "Kenney" => k # 2
     /\ lib = "H360s" => k >= 2

\* The files of records i and j lie below one subdirectory of a category.
SameSubdirectory(i, j) ==
  LET p == FileOf(manifest[i])
      q == FileOf(manifest[j])
  IN Len(p) >= 3 /\ Len(q) >= 3 /\ p[1] = q[1] /\ p[2] = q[2]

CategoryAt(c) == CHOOSE i \in 1..Len(categories) : categories[i] = c

\* C26: H360s scans only Ambience, Combat, Foley, Misc and Voices, in that
\* order: every record's category is one of the five and is the top-level
\* folder of its file, the records of an earlier category of the list come
\* before those of a later one whatever the listing order, a category folder
\* that is missing raises no error, and a file below any other top-level
\* folder has no record.
C26_OnlyFixedCategoriesInOrder ==
  lib = "H360s" =>
    /\ \A i \in 1..Len(manifest) :
         /\ ScannedCategory(manifest[i].category)
         /\ FileOf(manifest[i])[1] = manifest[i].category
    /\ \A i, j \in 1..Len(manifest) :
         i < j => CategoryAt(manifest[i].category) <= CategoryAt(manifest[j].category)
    /\ \A n \in AudioFiles :
         ~ScannedCategory(n.path[1]) => RecordsAt(ManifestPath(lib, n.path)) = 0
    /\ err \notin {"ENOENT", "ENOTDIR"}
    /\ pc = "done" =>
         \A n \in AudioFiles :
           ScannedCategory(n.path[1]) => RecordsAt(ManifestPath(lib, n.path)) = 1

\* C26 witness: H360s has finished over a root that lists Voices before
\* Ambience and RetroGames, with Combat, Foley and Misc missing: the manifest
\* holds Ambience's file, then Voices's, and not RetroGames's.
C26_Witness ==
  /\ lib = "H360s" /\ pc = "done" /\ err = "none"
  /\ ListedAt(<<"Voices">>) < ListedAt(<<"Ambience">>)
  /\ Node(<<"RetroGames", "e.mp3">>, "file") \in tree
  /\ Len(manifest) = 2
  /\ FileOf(manifest[1]) = <<"Ambience", "a.ogg">>
  /\ FileOf(manifest[2]) = <<"Voices", "e.mp3">>

\* ------------------------------------------------------------------------
\* Cloud synchronisation of songs (CloudSyncManager, GoogleDriveManager)
\* ------------------------------------------------------------------------

\* A song of IndexedDB: its Drive id (0 while it has none: undefined and
\* false are both falsy and equal no Drive id) and the operation that
\* stored it.
LocalSong(driveId, source) == [driveId |-> driveId, source |-> source]

\* A song file of the Drive folder: the local song it was uploaded from (0
\* for a file of another device) and the function that uploaded it.
DriveSong(song, by) == [song |-> song, by |-> by]

\* { operation: 'save', data: { songName, songData, localId } }
QueueItem(localId) == [operation |-> "save", localId |-> localId]

\* saveSongToDrive resolves to the new file's id ("uploaded"), resolves to
\* false ("false": not signed in, or no folder id and
\* ensureSongDesignerFolder could not get one), or rejects ("thrown": the
\* request failed, and the catch block reads exportData, which is declared
\* in the try block, a ReferenceError).  navigator.onLine says whether
\* requests can succeed at all.
UploadOutcomes ==
  IF ~signedIn THEN {"false"}
  ELSE (IF songFolderId THEN {} ELSE {"false"})
         \cup (IF online \/ songFolderId THEN {"thrown"} ELSE {})
         \cup (IF online /\ Len(driveSongs) < MaxFiles THEN {"uploaded"} ELSE {})

\* The value the caller of saveSongToDrive gets for driveId.
DriveIdOf(outcome) == IF outcome = "uploaded" THEN Len(driveSongs) + 1 ELSE 0

\* The Drive folder after saveSongToDrive for the song localId.
Uploaded(outcome, localId, by) ==
  IF outcome = "uploaded" THEN Append(driveSongs, DriveSong(localId, by))
  ELSE driveSongs

\* googleDrive.folderId after saveSongToDrive: a request is made only once
\* ensureSongDesignerFolder has set it.
FolderAfter(outcome) ==
  IF signedIn /\ outcome \in {"uploaded", "thrown"} THEN TRUE ELSE songFolderId

\* linkSongIds(localId, driveId)
linkSongIds(songs, localId, driveId) ==
  IF localId \in DOMAIN songs
    THEN [songs EXCEPT ![localId].driveId = driveId] ELSE songs

\* The guard of syncFromCloud and syncToCloud without the syncInProgress test.
EntersSyncUnguarded(held) == signedIn

\* The guard of syncFromCloud and syncToCloud, held being syncInProgress.
EntersSync(held) == signedIn /\ ~held

\* localSongs.filter(song => !song.driveId), as items to upload.
SongsToUpload(songs) ==
  LET ids == SelectSeq([i \in 1..Len(songs) |-> i], LAMBDA i : songs[i].driveId = 0)
  IN [k \in 1..Len(ids) |-> QueueItem(ids[k])]

\* A loop of the function by over items, awaiting saveSongToDrive for its
\* first item, called from caller.
Pass(by, caller, items) == [by |-> by, caller |-> caller, queue |-> items]

\* fullSync after syncFromCloud has returned: syncToCloud, then the finally
\* block.  held is syncInProgress, ps the loops in flight, songs the local
\* songs.
AfterDownload(held, ps, songs) ==
  IF EntersSync(held) /\ SongsToUpload(songs) # << >>
    THEN /\ syncInProgress' = TRUE
         /\ activeSync' = "fullSync.syncToCloud"
         /\ passes' = Append(ps, Pass("syncToCloud", "fullSync", SongsToUpload(songs)))
    ELSE /\ syncInProgress' = FALSE
         /\ activeSync' = "idle"
         /\ passes' = ps

\* fullSync after processSyncQueue has returned: syncFromCloud, then the
\* rest.
AfterQueue(held, ps, songs) ==
  IF EntersSync(held)
    THEN /\ syncInProgress' = TRUE
         /\ activeSync' = "fullSync.syncFromCloud"
         /\ passes' = ps
    ELSE AfterDownload(held, ps, songs)

\* addToSyncQueue('save', { songName, songData, localId })
addToSyncQueue(localId) ==
  /\ syncQueue' = Append(syncQueue, QueueItem(localId))
  /\ storedQueue' = syncQueue'

\* CloudSyncManager.saveSong(songName, songData)
SaveSong ==
  /\ Cardinality({i \in 1..Len(localSongs) : localSongs[i].source = "saveSong"}) < MaxSongs
  /\ LET localId == Len(localSongs) + 1
         saved == Append(localSongs, LocalSong(0, "saveSong"))
     IN IF online /\ signedIn
          THEN \E outcome \in UploadOutcomes :
                 /\ driveSongs' = Uploaded(outcome, localId, "saveSong")
                 /\ songFolderId' = FolderAfter(outcome)
                 /\ IF outcome = "thrown"
                      THEN localSongs' = saved /\ addToSyncQueue(localId)
                      ELSE /\ localSongs' = linkSongIds(saved, localId, DriveIdOf(outcome))
                           /\ UNCHANGED <<syncQueue, storedQueue>>
          ELSE /\ localSongs' = saved
               /\ addToSyncQueue(localId)
               /\ UNCHANGED <<driveSongs, songFolderId>>
  /\ UNCHANGED <<online, signedIn, syncInProgress, passes, activeSync, onlineTimers>>
  /\ UNCHANGED <<generatorVars, driveVars, engineVars, libraryVars>>

\* processSyncQueue copies the queue and leaves it as it is.
TakeQueueKeepsQueue == syncQueue

\* this.syncQueue = [] once the queue is copied.
TakeQueue == << >>

\* The guard of processSyncQueue.
ProcessesQueue == signedIn /\ online

\* processSyncQueue() called from caller, up to its first await: nothing
\* when signed out or offline; an empty queue is saved at once; else the
\* queue is taken and emptied and the loop awaits its first upload.
StartPass(caller) ==
  IF ~ProcessesQueue
    THEN UNCHANGED <<syncQueue, storedQueue, passes>>
  ELSE IF syncQueue = << >>
    THEN storedQueue' = syncQueue /\ UNCHANGED <<syncQueue, passes>>
  ELSE /\ Len(passes) < MaxPasses
       /\ passes' = Append(passes, Pass("processSyncQueue", caller, syncQueue))
       /\ syncQueue' = TakeQueue
       /\ UNCHANGED storedQueue

\* fullSync(): the guard, then processSyncQueue; when that returns without
\* awaiting an upload the rest of fullSync follows in the same task.
fullSync ==
  /\ ~syncInProgress
  /\ IF ProcessesQueue /\ syncQueue # << >>
       THEN /\ StartPass("fullSync")
            /\ syncInProgress' = TRUE
            /\ activeSync' = "fullSync"
       ELSE /\ IF ProcessesQueue
                 THEN storedQueue' = syncQueue ELSE UNCHANGED storedQueue
            /\ UNCHANGED syncQueue
            /\ AfterQueue(TRUE, passes, localSongs)
  /\ UNCHANGED <<online, signedIn, songFolderId, localSongs, driveSongs, onlineTimers>>
  /\ UNCHANGED <<generatorVars, driveVars, engineVars, libraryVars>>

\* The Full Sync button.
FullSyncClicked == fullSync

\* The setInterval callback of startAutoSync.
AutoSyncTimerFires == online /\ signedIn /\ fullSync

\* The setTimeout callback of onOnline.
OnlineTimerFires ==
  /\ onlineTimers > 0
  /\ onlineTimers' = onlineTimers - 1
  /\ StartPass("onOnline")
  /\ UNCHANGED <<online, signedIn, songFolderId, syncInProgress, localSongs, driveSongs,
                 activeSync>>
  /\ UNCHANGED <<generatorVars, driveVars, engineVars, libraryVars>>

\* The loop of processSyncQueue or syncToCloud number p resumes with the
\* result of saveSongToDrive for its first item; after its last item the
\* function goes on to its end, and so does fullSync when it was waiting.
PassItem(p) ==
  /\ p \in 1..Len(passes)
  /\ LET pass == passes[p]
         item == Head(pass.queue)
         rest == Tail(pass.queue)
         ofQueue == pass.by = "processSyncQueue"
         ps == IF rest = << >> THEN Splice(passes, p)
               ELSE [passes EXCEPT ![p].queue = rest]
     IN \E outcome \in UploadOutcomes :
          LET links == IF ofQueue THEN outcome # "thrown" ELSE outcome = "uploaded"
              songs == IF links
                         THEN linkSongIds(localSongs, item.localId, DriveIdOf(outcome))
                         ELSE localSongs
              queued == IF ofQueue /\ outcome = "thrown"
                          THEN Append(syncQueue, item) ELSE syncQueue
          IN /\ driveSongs' = Uploaded(outcome, item.localId, pass.by)
             /\ songFolderId' = FolderAfter(outcome)
             /\ localSongs' = songs
             /\ syncQueue' = queued
             /\ storedQueue' = (IF rest = << >> /\ ofQueue THEN queued ELSE storedQueue)
             /\ IF rest # << >> \/ pass.caller = "onOnline"
                  THEN passes' = ps /\ UNCHANGED <<syncInProgress, activeSync>>
                ELSE IF ofQueue
                  THEN AfterQueue(syncInProgress, ps, songs)
                ELSE /\ passes' = ps
                     /\ syncInProgress' = FALSE
                     /\ activeSync' = "idle"
  /\ UNCHANGED <<online, signedIn, onlineTimers>>
  /\ UNCHANGED <<generatorVars, driveVars, engineVars, libraryVars>>

\* The Sync from Cloud button: syncFromCloud() up to its first await.
SyncFromCloudClicked ==
  /\ EntersSync(syncInProgress)
  /\ syncInProgress' = TRUE
  /\ activeSync' = "syncFromCloud"
  /\ UNCHANGED <<online, signedIn, songFolderId, syncQueue, storedQueue, localSongs,
                 driveSongs, passes, onlineTimers>>
  /\ UNCHANGED <<generatorVars, driveVars, engineVars, libraryVars>>

\* The files of Drive no local song is linked to, as downloaded songs.
NewFromCloud ==
  LET ids == SelectSeq([i \in 1..Len(driveSongs) |-> i],
                       LAMBDA d : \A k \in 1..Len(localSongs) : localSongs[k].driveId # d)
  IN [k \in 1..Len(ids) |-> LocalSong(ids[k], "download")]

\* syncFromCloud from its first await to its end: the files are listed and
\* the new ones downloaded, or the listing fails and nothing is; fullSync
\* goes on when it was waiting.
SyncFromCloudEnds ==
  /\ activeSync \in {"syncFromCloud", "fullSync.syncFromCloud"}
  /\ \E listed \in (IF signedIn /\ online THEN BOOLEAN ELSE {FALSE}) :
       LET songs == IF listed THEN localSongs \o NewFromCloud ELSE localSongs
       IN /\ localSongs' = songs
          /\ songFolderId' = (listed \/ songFolderId)
          /\ IF activeSync = "fullSync.syncFromCloud"
               THEN AfterDownload(FALSE, passes, songs)
               ELSE /\ syncInProgress' = FALSE
                    /\ activeSync' = "idle"
                    /\ UNCHANGED passes
  /\ UNCHANGED <<online, signedIn, syncQueue, storedQueue, driveSongs, onlineTimers>>
  /\ UNCHANGED <<generatorVars, driveVars, engineVars, libraryVars>>

\* The Sync to Cloud button: syncToCloud() up to its first upload.
SyncToCloudClicked ==
  /\ EntersSync(syncInProgress)
  /\ SongsToUpload(localSongs) # << >>
  /\ Len(passes) < MaxPasses
  /\ syncInProgress' = TRUE
  /\ activeSync' = "syncToCloud"
  /\ passes' = Append(passes, Pass("syncToCloud", "button", SongsToUpload(localSongs)))
  /\ UNCHANGED <<online, signedIn, songFolderId, syncQueue, storedQueue, localSongs,
                 driveSongs, onlineTimers>>
  /\ UNCHANGED <<generatorVars, driveVars, engineVars, libraryVars>>

\* The online event: onOnline() sets a timer for processSyncQueue.
GoOnline ==
  /\ ~online /\ Len(passes) + onlineTimers < MaxPasses
  /\ online' = TRUE
  /\ onlineTimers' = onlineTimers + 1
  /\ UNCHANGED <<signedIn, songFolderId, syncInProgress, syncQueue, storedQueue,
                 localSongs, driveSongs, passes, activeSync>>
  /\ UNCHANGED <<generatorVars, driveVars, engineVars, libraryVars>>

\* The offline event: onOffline() only shows a notification.
GoOffline ==
  /\ online
  /\ online' = FALSE
  /\ UNCHANGED <<signedIn, songFolderId, syncInProgress, syncQueue, storedQueue,
                 localSongs, driveSongs, passes, activeSync, onlineTimers>>
  /\ UNCHANGED <<generatorVars, driveVars, engineVars, libraryVars>>

\* updateSignInStatus(true): ensureSongDesignerFolder finds or creates the
\* folder, or fails and leaves folderId null.
SignIn ==
  /\ ~signedIn
  /\ signedIn' = TRUE
  /\ songFolderId' \in (IF online THEN BOOLEAN ELSE {FALSE})
  /\ UNCHANGED <<online, syncInProgress, syncQueue, storedQueue, localSongs, driveSongs,
                 passes, activeSync, onlineTimers>>
  /\ UNCHANGED <<generatorVars, driveVars, engineVars, libraryVars>>

\* updateSignInStatus(false)
SignOut ==
  /\ signedIn
  /\ signedIn' = FALSE
  /\ songFolderId' = FALSE
  /\ UNCHANGED <<online, syncInProgress, syncQueue, storedQueue, localSongs, driveSongs,
                 passes, activeSync, onlineTimers>>
  /\ UNCHANGED <<generatorVars, driveVars, engineVars, libraryVars>>

\* The page is loaded again: what ran is gone and the constructors and
\* init() run anew; localStorage, IndexedDB and Drive keep what they hold.
\* init() loads the settings and does not call loadSyncQueue.
Reload ==
  /\ signedIn' = FALSE /\ songFolderId' = FALSE
  /\ syncInProgress' = FALSE
  /\ syncQueue' = << >>
  /\ passes' = << >>
  /\ activeSync' = "idle"
  /\ onlineTimers' = 0
  /\ UNCHANGED <<online, storedQueue, localSongs, driveSongs>>
  /\ UNCHANGED <<generatorVars, driveVars, engineVars, libraryVars>>

\* A page just loaded, online or not, with or without a song file another
\* device has put in the Drive folder.
InitSync ==
  /\ ScriptIdle
  /\ DriveIdle
  /\ EngineIdle
  /\ LibraryIdle
  /\ \E isOnline \in BOOLEAN : Constructed(<< >>, isOnline)
  /\ localSongs = << >>
  /\ driveSongs \in {<< >>, <<DriveSong(0, "other device")>>}

NextSync ==
  \/ SaveSong
  \/ GoOnline
  \/ GoOffline
  \/ SignIn
  \/ SignOut
  \/ OnlineTimerFires
  \/ \E p \in 1..MaxPasses : PassItem(p)
  \/ FullSyncClicked
  \/ AutoSyncTimerFires
  \/ SyncFromCloudClicked
  \/ SyncFromCloudEnds
  \/ SyncToCloudClicked
  \/ Reload

SpecSync == InitSync /\ [][NextSync]_vars

\* C27: a fullSync call made while no sync is in progress, online and signed
\* in, goes in this order through the processing of the sync queue, the body
\* of syncFromCloud and the body of syncToCloud: once the queue is processed
\* the download is under way, and once that is over the upload of the local
\* songs without a Drive id is (the user staying signed in).
C27_FullSyncRunsThreePhases ==
  /\ [][(fullSync /\ online /\ signedIn)
          => activeSync' \in {"fullSync", "fullSync.syncFromCloud"}]_vars
  /\ [][(activeSync = "fullSync" /\ activeSync' # activeSync /\ signedIn /\ ~Reload)
          => activeSync' = "fullSync.syncFromCloud"]_vars
  /\ [][(/\ activeSync = "fullSync.syncFromCloud" /\ activeSync' # activeSync
         /\ signedIn /\ ~Reload /\ SongsToUpload(localSongs') # << >>)
          => activeSync' = "fullSync.syncToCloud"]_vars

\* The local ids of the songs saved with saveSong.
SavedSongs == {i \in 1..Len(localSongs) : localSongs[i].source = "saveSong"}

\* The song has a file in the Drive folder.
IsUploaded(i) == \E d \in 1..Len(driveSongs) : driveSongs[d].song = i

\* syncQueue holds a save entry for the song.
IsQueued(i) == \E k \in 1..Len(syncQueue) : syncQueue[k] = QueueItem(i)

\* The loops of processSyncQueue in flight.
QueuePasses == {p \in 1..Len(passes) : passes[p].by = "processSyncQueue"}

\* A running processSyncQueue holds the song's entry and has yet to try it.
IsInPass(i) ==
  \E p \in QueuePasses :
    \E k \in 1..Len(passes[p].queue) : passes[p].queue[k] = QueueItem(i)

\* localStorage holds a save entry for the song.
IsStored(i) == \E k \in 1..Len(storedQueue) : storedQueue[k] = QueueItem(i)

\* C28: whatever saveSong, processSyncQueue, online, offline, sign-in and
\* sign-out events have happened, every song saved with saveSong that has no
\* file in Drive has a save entry in syncQueue, or in the queue a running
\* processSyncQueue took and has not tried yet, or at least in the queue
\* saved to localStorage.
C28_NoSavedSongLost ==
  \A i \in SavedSongs : IsUploaded(i) \/ IsQueued(i) \/ IsInPass(i) \/ IsStored(i)

\* C29: the operations queued while offline survive a reload of the page:
\* once the new CloudSyncManager is initialised, syncQueue holds the
\* operations that were saved to localStorage.
C29_QueueSurvivesReload ==
  [][Reload => syncQueue' = storedQueue]_vars

\* In how many places the save entry of song i is held: positions of
\* syncQueue and of the queues the running processSyncQueue calls took.
HeldCount(i) ==
  Cardinality({k \in 1..Len(syncQueue) : syncQueue[k] = QueueItem(i)})
    + Cardinality({pk \in QueuePasses \X (1..MaxSongs) :
                     /\ pk[2] <= Len(passes[pk[1]].queue)
                     /\ passes[pk[1]].queue[pk[2]] = QueueItem(i)})

\* How many files processSyncQueue has uploaded for song i.
QueueUploads(i) ==
  Cardinality({d \in 1..Len(driveSongs) :
                 driveSongs[d].song = i /\ driveSongs[d].by = "processSyncQueue"})

\* C30: with processSyncQueue running more than once at a time (called by
\* the timer of onOnline and by fullSync, from its button or the auto-sync
\* timer), the entry of a song is held by one call at most and uploaded once
\* at most, and while a call runs no entry of syncQueue goes away other
\* than into the queue of a call that takes it (a new load of the
\* page apart).
C30_ConcurrentPassesShareNothing ==
  /\ [](\A i \in SavedSongs : HeldCount(i) + QueueUploads(i) <= 1)
  /\ [][(QueuePasses # {} /\ ~Reload) =>
          \A k \in 1..Len(syncQueue) :
            \/ \E j \in 1..Len(syncQueue') : syncQueue'[j] = syncQueue[k]
            \/ \E p \in 1..Len(passes') :
                 /\ passes'[p].by = "processSyncQueue"
                 /\ \E j \in 1..Len(passes'[p].queue) : passes'[p].queue[j] = syncQueue[k]]_vars

\* C30 witness: a processSyncQueue called by fullSync and one called by the
\* timer of onOnline both await an upload, each with an entry of its own.
C30_Witness ==
  /\ Len(passes) = 2
  /\ {passes[1].caller, passes[2].caller} = {"fullSync", "onOnline"}
  /\ passes[1].by = "processSyncQueue" /\ passes[2].by = "processSyncQueue"
  /\ passes[1].queue # passes[2].queue

\* The sync bodies in execution: a syncToCloud loop awaiting an upload, a
\* fullSync awaiting its processSyncQueue, and a syncFromCloud awaiting the
\* listing or a download.
SyncBodies ==
  Cardinality({p \in 1..Len(passes) :
                 \/ passes[p].by = "syncToCloud"
                 \/ passes[p].by = "processSyncQueue" /\ passes[p].caller = "fullSync"})
    + (IF activeSync \in {"syncFromCloud", "fullSync.syncFromCloud"} THEN 1 ELSE 0)

\* C31: under every interleaving of the three sync buttons, the auto-sync
\* timer and the other events, at most one sync body of syncFromCloud,
\* syncToCloud and fullSync is executing, syncInProgress is set while one
\* is, and it is false again whenever none is, a failed sync included.
C31_OneSyncBodyAtATime ==
  /\ SyncBodies <= 1
  /\ syncInProgress <=> SyncBodies = 1

\* syncToCloud is uploading with syncInProgress set while a processSyncQueue
\* started by the onOnline timer, which is no sync body, is uploading too.
C31_Witness ==
  /\ syncInProgress
  /\ activeSync = "syncToCloud"
  /\ \E p, q \in 1..Len(passes) :
       /\ passes[p].by = "syncToCloud"
       /\ passes[q].by = "processSyncQueue" /\ passes[q].caller = "onOnline"

\* C35: after any sequence of indexing, re-indexing and removal of Drive
\* folders, the stored list of indexed folders has at most one entry for a
\* folder id and the stored Drive audio files have at most one entry for a
\* Drive file id.
C35_PersistedIndexUnique ==
  /\ \A i, j \in 1..Len(indexedFolders) :
       indexedFolders[i].id = indexedFolders[j].id => i = j
  /\ \A i, j \in 1..Len(driveAudioFiles) :
       driveAudioFiles[i].driveId = driveAudioFiles[j].driveId => i = j

\* C37: in every generator variant each record of the manifest is the
\* record of a regular file of the tree: an entry that is a directory,
\* whatever it is called, gives no record.
C37_RecordsAreRegularFiles ==
  \A k \in 1..Len(manifest) :
    \E n \in tree : n.kind = "file" /\ ManifestPath(lib, n.path) = manifest[k].path

\* ------------------------------------------------------------------------
\* The audio search engine: collection, filters and playback
\* ------------------------------------------------------------------------

\* Most promises of play() and fetch() awaited at a time.
MaxPending == 2

\* Most files of one batch handed to addExternalLibraryFiles.
MaxBatch == 2

\* The URL formats tryAlternativeGoogleDriveUrls goes through.
UrlFormats == 3

\* The proxies playWithCorsProxy goes through.
CorsProxies == 3

\* A file of a manifest as the engine holds it: no Drive id, no Drive folder.
EngineFile(fileId, path, category, rating) ==
  [ id |-> fileId, path |-> path, category |-> category, rating |-> rating,
    driveId |-> "", driveFolderId |-> "" ]

\* The manifests loaded at startup: two files of two categories.
LoadedManifest ==
  << EngineFile(1, "audio/H360s/Ambience/rain.ogg", "Ambience", 0),
     EngineFile(2, "audio/H360s/Combat/sword.wav", "Combat", 1) >>

\* f.driveId is set: loadAndPlay plays the file with the audio element.
IsDriveFile(f) == f.driveId # ""

\* filteredFiles[idx], idx counted from 0; << >> for undefined.
FileAt(files, idx) == IF idx + 1 \in 1..Len(files) THEN <<files[idx + 1]>> ELSE << >>

\* a % n of JavaScript: the sign of the result is that of a.
Remainder(a, n) == IF a >= 0 THEN a % n ELSE 0 - ((0 - a) % n)

\* A promise not settled yet: play() of playWithHtml5Audio ("play"), play()
\* of tryAlternativeGoogleDriveUrls ("altPlay"), fetch() and play() of
\* playWithCorsProxy ("proxyFetch", "proxyPlay"); file is the path of f in
\* the closure, index the URL format or proxy tried.
Promise(kind, file, index) == [kind |-> kind, file |-> file, index |-> index]

\* html5Audio.pause(); html5Audio.src = ''
Silenced(audio) ==
  IF audio.created THEN [audio EXCEPT !.src = "", !.paused = TRUE, !.ready = FALSE]
  ELSE audio

\* html5Audio.src = <a URL of file>; html5Audio.play(): the element is
\* created by playWithHtml5Audio when there is none.
Sourced(file) == [created |-> TRUE, src |-> file, paused |-> FALSE, ready |-> FALSE]

\* The element plays file and can be heard.
Audible(audio, file) == audio.created /\ audio.src = file /\ ~audio.paused /\ audio.ready

\* simulateDemoPlayback(f): the ticker of f requests its first frame.
simulateDemoPlayback(file, running) ==
  /\ tickers' = running \cup {file}
  /\ progressRAF' = file

\* playWithCorsProxy(f) from proxy number index on, the fetches before it
\* having failed: the next fetch is awaited, or, with no proxy left, the
\* demo playback starts; trying is isTryingAlternative as the caller left
\* it.
playWithCorsProxy(file, index, awaited, trying) ==
  IF index < CorsProxies
    THEN /\ pending' = awaited \cup {Promise("proxyFetch", file, index)}
         /\ isTryingAlternative' = trying
         /\ UNCHANGED <<html5Audio, tickers, progressRAF>>
    ELSE /\ pending' = awaited
         /\ isTryingAlternative' = FALSE
         /\ simulateDemoPlayback(file, tickers)
         /\ UNCHANGED html5Audio

\* tryAlternativeGoogleDriveUrls(f, urlIndex), awaited being the promises
\* still awaited.
tryAlternativeGoogleDriveUrls(file, urlIndex, awaited) ==
  IF isTryingAlternative /\ urlIndex = 0
    THEN /\ pending' = awaited
         /\ UNCHANGED <<html5Audio, isTryingAlternative, tickers, progressRAF>>
  ELSE IF urlIndex >= UrlFormats
    THEN playWithCorsProxy(file, 0, awaited, TRUE)
  ELSE /\ html5Audio' = Sourced(file)
       /\ isTryingAlternative' = TRUE
       /\ pending' = awaited \cup {Promise("altPlay", file, urlIndex)}
       /\ UNCHANGED <<tickers, progressRAF>>

\* cancelAnimationFrame(progressRAF): the loop that made the last request
\* stops, the others run on.
Cancelled(running) == running \ {progressRAF}

\* loadAndPlay(idx), running being the demo tickers that run.
loadAndPlay(idx, running) ==
  LET f == FileAt(filteredFiles, idx)
  IN /\ isTryingAlternative' = FALSE
     /\ tickers' = Cancelled(running)
     /\ IF f = << >>
          THEN /\ howl' = NoHowl
               /\ html5Audio' = Silenced(html5Audio)
               /\ progressRAF' = ""
               /\ UNCHANGED <<currentIndex, lastLoaded, pending>>
        ELSE IF IsDriveFile(f[1])
          THEN /\ Cardinality(pending) < MaxPending
               /\ currentIndex' = idx
               /\ lastLoaded' = f[1].path
               /\ howl' = NoHowl
               /\ html5Audio' = Sourced(f[1].path)
               /\ pending' = pending \cup {Promise("play", f[1].path, 0)}
               /\ progressRAF' = ""
        ELSE /\ currentIndex' = idx
             /\ lastLoaded' = f[1].path
             /\ howl' = [file |-> f[1].path, state |-> "loading"]
             /\ html5Audio' = Silenced(html5Audio)
             /\ progressRAF' = ""
             /\ UNCHANGED pending

\* playNext(), running being the demo tickers that run.
playNext(running) ==
  IF filteredFiles = << >>
    THEN /\ tickers' = running
         /\ UNCHANGED <<currentIndex, lastLoaded, howl, html5Audio, isTryingAlternative,
                        pending, progressRAF>>
    ELSE loadAndPlay(Remainder(currentIndex + 1, Len(filteredFiles)), running)

\* What the player leaves alone: the collection and the rest of the page.
collectionVars ==
  <<filterCategory, sortBy, sheetsMetadata, filteredFiles, autoplay>>

\* A click on the play button of card idx: togglePlay(idx).
TogglePlay(idx) ==
  /\ idx \in 0..(Len(filteredFiles) - 1)
  /\ IF currentIndex = idx /\ howl # NoHowl
       THEN /\ howl' = [howl EXCEPT !.state = CASE @ = "playing" -> "paused"
                                                [] @ \in {"paused", "stopped"} -> "playing"
                                                [] OTHER -> @]
            /\ tickers' = (IF howl.state = "playing" THEN Cancelled(tickers) ELSE tickers)
            /\ progressRAF' = (CASE howl.state = "playing" -> ""
                                 [] howl.state \in {"paused", "stopped"} -> "howl"
                                 [] OTHER -> progressRAF)
            /\ UNCHANGED <<currentIndex, lastLoaded, html5Audio, isTryingAlternative, pending>>
     ELSE IF currentIndex = idx /\ html5Audio.created /\ html5Audio.src # ""
       THEN /\ html5Audio' = [html5Audio EXCEPT !.paused = ~@]
            /\ UNCHANGED <<currentIndex, lastLoaded, howl, isTryingAlternative, pending,
                           tickers, progressRAF>>
     ELSE loadAndPlay(idx, tickers)
  /\ UNCHANGED <<collectionVars, audioFiles, indexedFolders, driveAudioFiles, indexOps>>
  /\ UNCHANGED <<generatorVars, syncVars, libraryVars>>

\* The next button.
PlayNext ==
  /\ filteredFiles # << >>
  /\ playNext(tickers)
  /\ UNCHANGED <<collectionVars, audioFiles, indexedFolders, driveAudioFiles, indexOps>>
  /\ UNCHANGED <<generatorVars, syncVars, libraryVars>>

\* The previous button: playPrev().
PlayPrev ==
  /\ filteredFiles # << >>
  /\ loadAndPlay(Remainder(currentIndex - 1 + Len(filteredFiles), Len(filteredFiles)),
                 tickers)
  /\ UNCHANGED <<collectionVars, audioFiles, indexedFolders, driveAudioFiles, indexOps>>
  /\ UNCHANGED <<generatorVars, syncVars, libraryVars>>

\* The Howl has loaded its file and plays: onload, onplay.
HowlLoaded ==
  /\ howl.state = "loading"
  /\ howl' = [howl EXCEPT !.state = "playing"]
  /\ progressRAF' = "howl"
  /\ UNCHANGED <<currentIndex, lastLoaded, html5Audio, isTryingAlternative, pending, tickers>>
  /\ UNCHANGED <<collectionVars, audioFiles, indexedFolders, driveAudioFiles, indexOps>>
  /\ UNCHANGED <<generatorVars, syncVars, libraryVars>>

\* The Howl cannot load its file: onloaderror starts the demo playback.
HowlLoadError ==
  /\ howl.state = "loading"
  /\ howl' = [howl EXCEPT !.state = "failed"]
  /\ simulateDemoPlayback(howl.file, tickers)
  /\ UNCHANGED <<currentIndex, lastLoaded, html5Audio, isTryingAlternative, pending>>
  /\ UNCHANGED <<collectionVars, audioFiles, indexedFolders, driveAudioFiles, indexOps>>
  /\ UNCHANGED <<generatorVars, syncVars, libraryVars>>

\* The Howl has played its file to the end: onend.
HowlEnds ==
  /\ howl.state = "playing"
  /\ IF autoplay
       THEN playNext(Cancelled(tickers))
       ELSE /\ howl' = [howl EXCEPT !.state = "stopped"]
            /\ tickers' = Cancelled(tickers)
            /\ progressRAF' = ""
            /\ UNCHANGED <<currentIndex, lastLoaded, html5Audio, isTryingAlternative, pending>>
  /\ UNCHANGED <<collectionVars, audioFiles, indexedFolders, driveAudioFiles, indexOps>>
  /\ UNCHANGED <<generatorVars, syncVars, libraryVars>>

\* The audio element has played its source to the end: onended.
Html5Ends ==
  /\ Audible(html5Audio, html5Audio.src)
  /\ IF autoplay
       THEN playNext(tickers)
       ELSE /\ html5Audio' = [html5Audio EXCEPT !.paused = TRUE]
            /\ UNCHANGED <<currentIndex, lastLoaded, howl, isTryingAlternative, pending,
                           tickers, progressRAF>>
  /\ UNCHANGED <<collectionVars, audioFiles, indexedFolders, driveAudioFiles, indexOps>>
  /\ UNCHANGED <<generatorVars, syncVars, libraryVars>>

\* A promise of play() or fetch() settles.  play() is fulfilled only while
\* the element still plays the source the promise was made for; it is
\* rejected when the source cannot be loaded and when pause() or a new
\* source aborts it.
PromiseSettles(p, ok) ==
  /\ p \in pending
  /\ ok /\ p.kind # "proxyFetch"
       => html5Audio.created /\ html5Audio.src = p.file /\ ~html5Audio.paused
  /\ LET awaited == pending \ {p}
         heard == [html5Audio EXCEPT !.ready = TRUE]
     IN CASE p.kind = "play" ->
               IF ok
                 THEN /\ html5Audio' = heard
                      /\ pending' = awaited
                      /\ UNCHANGED <<isTryingAlternative, tickers, progressRAF>>
                 ELSE tryAlternativeGoogleDriveUrls(p.file, 0, awaited)
          [] p.kind = "altPlay" ->
               IF ok
                 THEN /\ html5Audio' = heard
                      /\ pending' = awaited
                      /\ isTryingAlternative' = FALSE
                      /\ UNCHANGED <<tickers, progressRAF>>
                 ELSE tryAlternativeGoogleDriveUrls(p.file, p.index + 1, awaited)
          [] p.kind = "proxyFetch" ->
               IF ok
                 THEN /\ html5Audio' = Sourced(p.file)
                      /\ pending' = awaited \cup {Promise("proxyPlay", p.file, p.index)}
                      /\ UNCHANGED <<isTryingAlternative, tickers, progressRAF>>
                 ELSE playWithCorsProxy(p.file, p.index + 1, awaited, isTryingAlternative)
          [] p.kind = "proxyPlay" ->
               IF ok
                 THEN /\ html5Audio' = heard
                      /\ pending' = awaited
                      /\ isTryingAlternative' = FALSE
                      /\ UNCHANGED <<tickers, progressRAF>>
                 ELSE playWithCorsProxy(p.file, p.index + 1, awaited, isTryingAlternative)
  /\ UNCHANGED <<currentIndex, lastLoaded, howl>>
  /\ UNCHANGED <<collectionVars, audioFiles, indexedFolders, driveAudioFiles, indexOps>>
  /\ UNCHANGED <<generatorVars, syncVars, libraryVars>>

\* A frame of the demo ticker of file: the ticker requests the next frame,
\* or the fake duration is over and the next file follows when autoplay is
\* set.
DemoTick(file, over) ==
  /\ file \in tickers
  /\ IF ~over
       THEN /\ progressRAF' = file
            /\ UNCHANGED <<currentIndex, lastLoaded, howl, html5Audio, isTryingAlternative,
                           pending, tickers>>
     ELSE IF autoplay
       THEN playNext(tickers \ {file})
     ELSE /\ tickers' = tickers \ {file}
          /\ progressRAF' = (IF progressRAF = file THEN "" ELSE progressRAF)
          /\ UNCHANGED <<currentIndex, lastLoaded, howl, html5Audio, isTryingAlternative,
                         pending>>
  /\ UNCHANGED <<collectionVars, audioFiles, indexedFolders, driveAudioFiles, indexOps>>
  /\ UNCHANGED <<generatorVars, syncVars, libraryVars>>

\* A row of the metadata sheet or of an imported JSON file.
Row(path, rating) == [path |-> path, rating |-> rating]

\* mergeMetadata(files): the rating of the sheet's row for the path wins;
\* rows carry a rating only and no local override is saved, so name, tags
\* and description stay.
mergeMetadata(files, sheet) ==
  [i \in 1..Len(files) |->
     IF \E row \in sheet : row.path = files[i].path
       THEN [files[i] EXCEPT
               !.rating = (CHOOSE row \in sheet : row.path = files[i].path).rating]
       ELSE files[i]]

\* The category buttons and the sort select offer these.
CategoryButtons == {"all", "Ambience", "Combat"}

SortOptions == {"default", "rating-desc", "rating-asc"}

\* A click on a category button or a change of the sort select:
\* applyFilters().
ApplyFilters(category, sort) ==
  /\ filterCategory' = category
  /\ sortBy' = sort
  /\ applyFilters(audioFiles, category, sort)
  /\ UNCHANGED <<sheetsMetadata, playerVars>>
  /\ UNCHANGED driveVars
  /\ UNCHANGED <<generatorVars, syncVars, libraryVars>>

\* The sheets a user can connect: one that rates the first manifest file,
\* and one without rows.
Sheets == {{Row("audio/H360s/Ambience/rain.ogg", 2)}, {}}

\* connectSheets(): the CSV is fetched and parsed, the master list is merged
\* with it and copied to filteredFiles.  (A failed fetch only shows a
\* message.)
ConnectSheets(sheet) ==
  /\ sheetsMetadata' = sheet
  /\ audioFiles' = mergeMetadata(audioFiles, sheet)
  /\ filteredFiles' = audioFiles'
  /\ UNCHANGED <<filterCategory, sortBy, currentIndex, playerVars>>
  /\ UNCHANGED <<indexedFolders, driveAudioFiles, indexOps>>
  /\ UNCHANGED <<generatorVars, syncVars, libraryVars>>

\* The JSON files a user can import: one row for the second manifest file.
ImportedFiles == {{Row("audio/H360s/Combat/sword.wav", 0)}}

\* importMetadata() with a JSON file: Object.assign(f, row) for the file of
\* each row's path, then the master list is copied to filteredFiles.
ImportMetadata(rows) ==
  /\ audioFiles' = mergeMetadata(audioFiles, rows)
  /\ filteredFiles' = audioFiles'
  /\ UNCHANGED <<filterCategory, sortBy, sheetsMetadata, currentIndex, playerVars>>
  /\ UNCHANGED <<indexedFolders, driveAudioFiles, indexOps>>
  /\ UNCHANGED <<generatorVars, syncVars, libraryVars>>

\* The files a source can hand over: a new one, and one whose path the
\* manifest already has; neither carries an id.
ExternalFiles ==
  { [id |-> 0, path |-> "https://cdn.example/loops/beat.ogg", category |-> "Music"],
    [id |-> 0, path |-> "audio/H360s/Ambience/rain.ogg", category |-> "Ambience"] }

RECURSIVE BatchesOfLen(_)
BatchesOfLen(n) ==
  IF n = 0 THEN {<< >>}
  ELSE {Append(b, f) : b \in BatchesOfLen(n - 1), f \in ExternalFiles}

Batches == UNION {BatchesOfLen(n) : n \in 1..MaxBatch}

\* audioFiles.reduce((m, f) => Math.max(m, f.id || 0), 0) + 1: NaN, written
\* 0 here, once a Drive file, whose id is a string, is in the list.
NextId(files) ==
  LET ids == {files[i].id : i \in {j \in 1..Len(files) : ~IsDriveFile(files[j])}}
  IN IF \E i \in 1..Len(files) : IsDriveFile(files[i]) THEN 0
     ELSE IF ids = {} THEN 1
     ELSE (CHOOSE m \in ids : \A k \in ids : k <= m) + 1

\* The normalised copy of the k-th file of a batch: f.id || nextId++ and
\* the defaults for what the file lacks.
Normalised(batch, k, nextId) ==
  [ id |-> IF batch[k].id # 0 THEN batch[k].id
           ELSE IF nextId = 0 THEN "NaN"
           ELSE nextId + Cardinality({j \in 1..(k - 1) : batch[j].id = 0}),
    path |-> batch[k].path, category |-> batch[k].category, rating |-> 0,
    driveId |-> "", driveFolderId |-> "" ]

\* window.addExternalLibraryFiles(files, libraryName), also as called by
\* drainPendingLibraryFiles for the files queued before the engine started.
addExternalLibraryFiles(batch) ==
  LET normalised == [k \in 1..Len(batch) |-> Normalised(batch, k, NextId(audioFiles))]
      existingPaths == {audioFiles[i].path : i \in 1..Len(audioFiles)}
      newFiles == SelectSeq(normalised,
                            LAMBDA f : f.path # "" /\ f.path \notin existingPaths)
  IN IF newFiles = << >>
       THEN UNCHANGED <<audioFiles, filteredFiles, currentIndex>>
       ELSE /\ audioFiles' = audioFiles \o mergeMetadata(newFiles, sheetsMetadata)
            /\ applyFilters(audioFiles', filterCategory, sortBy)

\* A source hands a batch of files to the engine.
AddExternalLibraryFiles(batch) ==
  /\ batch # << >>
  /\ addExternalLibraryFiles(batch)
  /\ UNCHANGED <<filterCategory, sortBy, sheetsMetadata, playerVars>>
  /\ UNCHANGED <<indexedFolders, driveAudioFiles, indexOps>>
  /\ UNCHANGED <<generatorVars, syncVars, libraryVars>>

\* The engine once the page has loaded the manifests and the files of the
\* Drive folder Music, indexed in an earlier session.
InitEngine ==
  /\ ScriptIdle
  /\ SyncIdle
  /\ LibraryIdle
  /\ LET files == indexDriveFolder("F1", DriveFolderName("F1"))
     IN /\ audioFiles = LoadedManifest \o files
        /\ indexedFolders = <<[id |-> "F1", name |-> DriveFolderName("F1"),
                               indexedAt |-> 0, fileCount |-> Len(files)]>>
        /\ driveAudioFiles = files
        /\ indexOps = 1
  /\ filterCategory = "all"
  /\ sortBy = "default"
  /\ sheetsMetadata = {}
  /\ filteredFiles = audioFiles
  /\ autoplay \in BOOLEAN
  /\ PlayerIdle

\* The collection is worked on and files are loaded; the callbacks of the
\* loads are yet to come.
NextEngine ==
  \/ \E category \in CategoryButtons, sort \in SortOptions : ApplyFilters(category, sort)
  \/ \E sheet \in Sheets : ConnectSheets(sheet)
  \/ \E rows \in ImportedFiles : ImportMetadata(rows)
  \/ \E batch \in Batches : AddExternalLibraryFiles(batch)
  \/ \E index \in 1..MaxIndexOps : RemoveIndexedFolder(index)
  \/ \E idx \in 0..(Len(filteredFiles) - 1) : TogglePlay(idx)
  \/ PlayNext
  \/ PlayPrev

SpecEngine == InitEngine /\ [][NextEngine]_vars

\* The files are played from the list as loaded: clicks and the callbacks
\* of Howler, of the audio element, of fetch and of the animation frames.
NextPlayer ==
  \/ \E idx \in 0..(Len(filteredFiles) - 1) : TogglePlay(idx)
  \/ PlayNext
  \/ PlayPrev
  \/ HowlLoaded
  \/ HowlLoadError
  \/ HowlEnds
  \/ Html5Ends
  \/ \E p \in pending, ok \in BOOLEAN : PromiseSettles(p, ok)
  \/ \E file \in tickers, over \in BOOLEAN : DemoTick(file, over)

SpecPlayer == InitEngine /\ [][NextPlayer]_vars

\* The sources that can be heard or seen playing: the Howl, the audio
\* element, and each demo ticker, with the file each plays.
PlaybackSources ==
  (IF howl.state = "playing" THEN {<<"howl", howl.file>>} ELSE {})
    \cup (IF Audible(html5Audio, html5Audio.src) THEN {<<"html5Audio", html5Audio.src>>}
          ELSE {})
    \cup {<<"demo", file>> : file \in tickers}

\* C32: at most one playback source is active at any time, and it plays the
\* file loadAndPlay loaded last: no Howl, audio element or demo ticker of a
\* file loaded before plays on or starts to play, whatever the order of
\* clicks and of load, error and fetch callbacks.
C32_OnePlaybackSource ==
  /\ Cardinality(PlaybackSources) <= 1
  /\ \A s \in PlaybackSources : s[2] = lastLoaded

\* C33: currentIndex is -1 or an index of filteredFiles, and the file there
\* is the one loadAndPlay loaded last, after any filtering, loading,
\* metadata import, sheet connection, addition and removal.
C33_CurrentIndexIsLoadedFile ==
  \/ currentIndex = -1
  \/ /\ currentIndex \in 0..(Len(filteredFiles) - 1)
     /\ filteredFiles[currentIndex + 1].path = lastLoaded

\* C34: no two entries of the master list audioFiles have the same path,
\* whatever batches addExternalLibraryFiles was called with, a batch with
\* one path twice included.
C34_MasterPathsUnique ==
  \A i, j \in 1..Len(audioFiles) : audioFiles[i].path = audioFiles[j].path => i = j

\* ------------------------------------------------------------------------
\* The library sources manager: user sources and their loaded marks
\* ------------------------------------------------------------------------

\* Most custom sources added.
MaxSources == 2

\* The manifest URLs a user enters.
SourceUrls == {"https://cdn.example/loops.json", "https://cdn.example/pack.json"}

\* The JSON array served at a manifest URL.
ManifestAt(url) ==
  IF url = "https://cdn.example/loops.json"
    THEN << [id |-> 0, path |-> "https://cdn.example/loops/beat.ogg", category |-> "Music"] >>
    ELSE << [id |-> 0, path |-> "audio/H360s/Ambience/rain.ogg", category |-> "Ambience"],
            [id |-> 0, path |-> "https://cdn.example/pack/chime.wav", category |-> "UI"] >>

\* A user source: id is the Date.now() of 'user-' + Date.now().
UserSource(sourceId, url) == [id |-> sourceId, manifestUrl |-> url]

\* A fetchManifest(url) awaited by addCustomSource ("add"), by the loop of
\* the Drive Links button ("auto") or by reloadUserSource ("reload"); id
\* is the id of the source in the closure, 0 while it has none.
Fetch(kind, sourceId, url) == [kind |-> kind, id |-> sourceId, url |-> url]

\* new LibrarySourcesManager(): the sources and the marks as stored.
LibrarySourcesManager ==
  /\ userSources' = storedSources
  /\ loadedLibraries' = storedLoaded
  /\ panel' = FALSE

\* The page is loaded again: the engine starts from the manifests, with the
\* settings and the sheet as stored, and a new manager is constructed; what
\* the old page awaited is gone with it.
PageReloads ==
  /\ LibrarySourcesManager
  /\ fetching' = {}
  /\ audioFiles' = LoadedManifest
  /\ filteredFiles' = audioFiles'
  /\ currentIndex' = -1
  /\ filterCategory' = "all"
  /\ sortBy' = "default"
  /\ lastLoaded' = ""
  /\ howl' = NoHowl
  /\ html5Audio' = NoAudio
  /\ isTryingAlternative' = FALSE
  /\ pending' = {}
  /\ tickers' = {}
  /\ progressRAF' = ""
  /\ UNCHANGED <<sheetsMetadata, autoplay, storedSources, storedLoaded, clock>>
  /\ UNCHANGED <<indexedFolders, driveAudioFiles, indexOps>>
  /\ UNCHANGED <<generatorVars, syncVars>>

\* What the manager's actions leave alone in the engine.
libraryFrame ==
  /\ UNCHANGED <<filterCategory, sortBy, sheetsMetadata, playerVars>>
  /\ UNCHANGED <<indexedFolders, driveAudioFiles, indexOps>>
  /\ UNCHANGED <<generatorVars, syncVars>>

\* addCustomSource() with a name and an http URL entered, up to its await.
AddCustomSource(url) ==
  /\ clock + Cardinality({p \in fetching : p.kind = "add"}) < MaxSources
  /\ Cardinality(fetching) < MaxPending
  /\ Fetch("add", 0, url) \notin fetching
  /\ fetching' = fetching \cup {Fetch("add", 0, url)}
  /\ UNCHANGED <<userSources, loadedLibraries, panel, storedSources, storedLoaded, clock>>
  /\ UNCHANGED <<audioFiles, filteredFiles, currentIndex>>
  /\ libraryFrame

\* The timer set by a click on the Drive Links button fires: the panel is
\* injected and every user source without a mark is fetched.
DriveLinksOpens ==
  /\ panel' = TRUE
  /\ fetching' = fetching \cup
       { Fetch("auto", userSources[i].id, userSources[i].manifestUrl) :
           i \in {j \in 1..Len(userSources) : userSources[j].id \notin loadedLibraries} }
  /\ UNCHANGED <<userSources, loadedLibraries, storedSources, storedLoaded, clock>>
  /\ UNCHANGED <<audioFiles, filteredFiles, currentIndex>>
  /\ libraryFrame

\* reloadUserSource(idx), idx counted from 1, up to its await.
ReloadUserSource(idx) ==
  /\ idx \in 1..Len(userSources)
  /\ Cardinality(fetching) < MaxPending
  /\ Fetch("reload", userSources[idx].id, userSources[idx].manifestUrl) \notin fetching
  /\ fetching' = fetching \cup
       {Fetch("reload", userSources[idx].id, userSources[idx].manifestUrl)}
  /\ UNCHANGED <<userSources, loadedLibraries, panel, storedSources, storedLoaded, clock>>
  /\ UNCHANGED <<audioFiles, filteredFiles, currentIndex>>
  /\ libraryFrame

\* removeUserSource(idx), confirmed: the source is spliced out and the list
\* saved; its files and its mark stay.
RemoveUserSource(idx) ==
  /\ idx \in 1..Len(userSources)
  /\ userSources' = SubSeq(userSources, 1, idx - 1)
                      \o SubSeq(userSources, idx + 1, Len(userSources))
  /\ storedSources' = userSources'
  /\ UNCHANGED <<loadedLibraries, panel, fetching, storedLoaded, clock>>
  /\ UNCHANGED <<audioFiles, filteredFiles, currentIndex>>
  /\ libraryFrame

\* A fetchManifest settles: with ok the files are injected, and the source
\* is added ("add") and marked ("add", "auto") and what changed is saved;
\* a failure is reported or skipped.
FetchSettles(p, ok) ==
  /\ p \in fetching
  /\ fetching' = fetching \ {p}
  /\ IF ~ok
       THEN UNCHANGED <<userSources, loadedLibraries, storedSources, storedLoaded, clock,
                        audioFiles, filteredFiles, currentIndex>>
       ELSE /\ addExternalLibraryFiles(ManifestAt(p.url))
            /\ CASE p.kind = "add" ->
                      /\ clock' = clock + 1
                      /\ userSources' = Append(userSources, UserSource(clock', p.url))
                      /\ storedSources' = userSources'
                      /\ loadedLibraries' = loadedLibraries \cup {clock'}
                      /\ storedLoaded' = loadedLibraries'
                 [] p.kind = "auto" ->
                      /\ loadedLibraries' = loadedLibraries \cup {p.id}
                      /\ storedLoaded' = loadedLibraries'
                      /\ UNCHANGED <<userSources, storedSources, clock>>
                 [] OTHER ->
                      /\ storedSources' = userSources
                      /\ UNCHANGED <<userSources, loadedLibraries, storedLoaded, clock>>
  /\ UNCHANGED panel
  /\ libraryFrame

\* The page with the manifests loaded and no source added yet.
InitLibrary ==
  /\ ScriptIdle
  /\ SyncIdle
  /\ LibraryIdle
  /\ audioFiles = LoadedManifest
  /\ indexedFolders = << >>
  /\ driveAudioFiles = << >>
  /\ indexOps = 0
  /\ filterCategory = "all"
  /\ sortBy = "default"
  /\ sheetsMetadata = {}
  /\ filteredFiles = audioFiles
  /\ autoplay = TRUE
  /\ PlayerIdle

NextLibrary ==
  \/ \E url \in SourceUrls : AddCustomSource(url)
  \/ DriveLinksOpens
  \/ \E idx \in 1..MaxSources : ReloadUserSource(idx)
  \/ \E idx \in 1..MaxSources : RemoveUserSource(idx)
  \/ \E p \in fetching, ok \in BOOLEAN : FetchSettles(p, ok)
  \/ PageReloads

SpecLibrary == InitLibrary /\ [][NextLibrary]_vars

\* The files of the manifest at url are in the collection.
InCollection(url, files) ==
  \A k \in 1..Len(ManifestAt(url)) :
     \E i \in 1..Len(files) : files[i].path = ManifestAt(url)[k].path

\* C36: the loadedLibraries marks are per page session: the first opening
\* of the Drive Links modal in a session fetches every saved user source,
\* except one whose files this session has already put into the collection,
\* and a fetch that succeeds puts the files of its manifest there.
C36_MarksArePerSession ==
  [][/\ (~panel /\ panel') =>
          \A i \in 1..Len(userSources) :
             \/ Fetch("auto", userSources[i].id, userSources[i].manifestUrl) \in fetching'
             \/ InCollection(userSources[i].manifestUrl, audioFiles)
     /\ \A p \in fetching :
          (p \notin fetching' /\ audioFiles' # audioFiles) => InCollection(p.url, audioFiles')
    ]_vars

====
